---- MODULE Spec2Model ----
(***************************************************************************)
(* A model of the cf-search index shard (SearchIndexDO): one Durable       *)
(* Object class that serves as the primary, as a replica and as a          *)
(* cold-storage shard.  The store is the FTS5 table `documents`; a string  *)
(* is a sequence of one-character strings, so that the content filter and  *)
(* the truncation are computed as the code computes them.                  *)
(***************************************************************************)
EXTENDS Integers, Sequences, FiniteSets, TLC

(***************************************************************************)
(* Bounds of the model.                                                    *)
(***************************************************************************)
\* Number of distinct valid document ids the callers use.
MaxIds == 2
\* Longest batch a caller passes to indexDocuments / syncDocuments.
MaxBatch == 2
\* Largest rowid the model lets a store assign (inserts beyond it are not issued).
MaxRowid == 3
\* Cold shards 0 .. MaxColdIndex exist; a higher index does not answer its RPCs.
MaxColdIndex == 1

(***************************************************************************)
(* Program constants.                                                      *)
(***************************************************************************)
CHUNK_SIZE == 15
MAX_CONTENT_LENGTH == 500
MAX_ID_LENGTH == 255
MIN_WORD_LENGTH == 2
MAX_WORD_LENGTH == 50
DEFAULT_COLD_THRESHOLD == 100000

(***************************************************************************)
(* Strings and JavaScript values.                                          *)
(***************************************************************************)
UpperChars == <<"A","B","C","D","E","F","G","H","I","J","K","L","M",
                "N","O","P","Q","R","S","T","U","V","W","X","Y","Z">>
LowerChars == <<"a","b","c","d","e","f","g","h","i","j","k","l","m",
                "n","o","p","q","r","s","t","u","v","w","x","y","z">>
DigitChars == {"0","1","2","3","4","5","6","7","8","9"}
SpaceChars == {" ", "\t", "\n"}

Range(f) == {f[i] : i \in DOMAIN f}

Max(S) == CHOOSE m \in S : \A n \in S : n <= m

Min2(a, b) == IF a <= b THEN a ELSE b

\* String.prototype.toLowerCase on one character (ASCII letters).
ToLowerChar(ch) ==
  IF \E i \in DOMAIN UpperChars : UpperChars[i] = ch
    THEN LowerChars[CHOOSE i \in DOMAIN UpperChars : UpperChars[i] = ch]
    ELSE ch

toLowerCase(s) == [i \in DOMAIN s |-> ToLowerChar(s[i])]

\* The regular expression class \w.
IsWordChar(ch) ==
  \/ ch \in Range(UpperChars)
  \/ ch \in Range(LowerChars)
  \/ ch \in DigitChars
  \/ ch = "_"

\* The regular expression class \s.
IsSpaceChar(ch) == ch \in SpaceChars

\* s.replace(/[^\w\s]+/g, " "): every run of characters that are neither word
\* characters nor white space becomes one space.
\* A character of such a run is followed by another one ("", and it goes) or
\* ends the run (" ").
ReplaceNonWord(s) ==
  LET IsOther(i) == ~(IsWordChar(s[i]) \/ IsSpaceChar(s[i]))
      replaced == [i \in DOMAIN s |->
                     IF ~IsOther(i) THEN s[i]
                     ELSE IF i < Len(s) /\ IsOther(i + 1) THEN ""
                     ELSE " "]
  IN  SelectSeq(replaced, LAMBDA ch : ch # "")

\* s.split(/\s+/).filter(word => word.length > 0): the maximal runs of
\* characters that are not white space, in order.  cur is the run being read.
SplitWords(s, cur) ==
  LET t == cur \o s
      IsFirst(i) == ~IsSpaceChar(t[i]) /\ (i = 1 \/ IsSpaceChar(t[i - 1]))
      IsLast(i) == ~IsSpaceChar(t[i]) /\ (i = Len(t) \/ IsSpaceChar(t[i + 1]))
      firsts == SelectSeq([i \in DOMAIN t |-> i], IsFirst)
      lasts == SelectSeq([i \in DOMAIN t |-> i], IsLast)
  IN  [k \in DOMAIN firsts |-> SubSeq(t, firsts[k], lasts[k])]

\* words.join(" ")
RECURSIVE JoinWords(_)
JoinWords(ws) ==
  IF ws = <<>> THEN <<>>
  ELSE IF Len(ws) = 1 THEN ws[1]
  ELSE JoinWords(SubSeq(ws, 1, Len(ws) \div 2)) \o <<" ">>
         \o JoinWords(SubSeq(ws, Len(ws) \div 2 + 1, Len(ws)))

\* s.slice(0, n)
Slice(s, n) == SubSeq(s, 1, Min2(n, Len(s)))

STOP_WORDS ==
  {
    <<"a">>, <<"a","n">>, <<"t","h","e">>, <<"a","n","d">>, <<"o","r">>, <<"b","u","t">>,
    <<"n","o","r">>, <<"f","o","r">>, <<"y","e","t">>, <<"s","o">>, <<"i","n">>, <<"o","n">>,
    <<"a","t">>, <<"t","o">>, <<"f","r","o","m">>, <<"w","i","t","h">>, <<"b","y">>,
    <<"a","b","o","u","t">>, <<"a","g","a","i","n","s","t">>, <<"b","e","t","w","e","e","n">>,
    <<"i","n","t","o">>, <<"t","h","r","o","u","g","h">>, <<"d","u","r","i","n","g">>,
    <<"b","e","f","o","r","e">>, <<"a","f","t","e","r">>, <<"a","b","o","v","e">>,
    <<"b","e","l","o","w">>, <<"u","p">>, <<"d","o","w","n">>, <<"o","u","t">>,
    <<"o","f","f">>, <<"o","v","e","r">>, <<"u","n","d","e","r">>, <<"i">>, <<"m","e">>,
    <<"m","y">>, <<"m","y","s","e","l","f">>, <<"w","e">>, <<"o","u","r">>,
    <<"o","u","r","s">>, <<"o","u","r","s","e","l","v","e","s">>, <<"y","o","u">>,
    <<"y","o","u","r">>, <<"y","o","u","r","s">>, <<"y","o","u","r","s","e","l","f">>,
    <<"y","o","u","r","s","e","l","v","e","s">>, <<"h","e">>, <<"h","i","m">>, <<"h","i","s">>,
    <<"h","i","m","s","e","l","f">>, <<"s","h","e">>, <<"h","e","r">>, <<"h","e","r","s">>,
    <<"h","e","r","s","e","l","f">>, <<"i","t">>, <<"i","t","s">>, <<"i","t","s","e","l","f">>,
    <<"t","h","e","y">>, <<"t","h","e","m">>, <<"t","h","e","i","r">>,
    <<"t","h","e","i","r","s">>, <<"t","h","e","m","s","e","l","v","e","s">>, <<"i","s">>,
    <<"a","m">>, <<"a","r","e">>, <<"w","a","s">>, <<"w","e","r","e">>, <<"b","e">>,
    <<"b","e","e","n">>, <<"b","e","i","n","g">>, <<"h","a","v","e">>, <<"h","a","s">>,
    <<"h","a","d">>, <<"h","a","v","i","n","g">>, <<"d","o">>, <<"d","o","e","s">>,
    <<"d","i","d">>, <<"d","o","i","n","g">>, <<"t","h","i","s">>, <<"t","h","a","t">>,
    <<"t","h","e","s","e">>, <<"t","h","o","s","e">>, <<"w","h","a","t">>,
    <<"w","h","i","c","h">>, <<"w","h","o">>, <<"w","h","o","m">>, <<"w","h","o","s","e">>,
    <<"w","h","e","n">>, <<"w","h","e","r","e">>, <<"w","h","y">>, <<"h","o","w">>,
    <<"a","l","l">>, <<"b","o","t","h">>, <<"e","a","c","h">>, <<"f","e","w">>,
    <<"m","o","r","e">>, <<"m","o","s","t">>, <<"o","t","h","e","r">>, <<"s","o","m","e">>,
    <<"s","u","c","h">>, <<"o","n","l","y">>, <<"v","e","r","y">>, <<"c","a","n">>,
    <<"w","i","l","l">>, <<"j","u","s","t">>, <<"s","h","o","u","l","d">>,
    <<"c","o","u","l","d">>, <<"w","o","u","l","d">>, <<"m","a","y">>, <<"m","i","g","h","t">>,
    <<"m","u","s","t">>, <<"s","h","a","l","l">>, <<"n","o","t">>, <<"n","o">>,
    <<"y","e","s">>
  }

COMMON_TERMS ==
  {
    <<"p","o","s","t">>, <<"p","o","s","t","s">>, <<"u","s","e","r">>, <<"u","s","e","r","s">>,
    <<"c","o","m","m","e","n","t">>, <<"c","o","m","m","e","n","t","s">>, <<"l","i","k","e">>,
    <<"l","i","k","e","s">>, <<"s","h","a","r","e">>, <<"s","h","a","r","e","s">>,
    <<"v","i","e","w">>, <<"v","i","e","w","s">>, <<"v","i","d","e","o">>,
    <<"v","i","d","e","o","s">>, <<"i","m","a","g","e">>, <<"i","m","a","g","e","s">>,
    <<"p","h","o","t","o">>, <<"p","h","o","t","o","s">>, <<"p","i","c","t","u","r","e">>,
    <<"p","i","c","t","u","r","e","s">>, <<"m","e","m","e">>, <<"m","e","m","e","s">>,
    <<"f","u","n","n","y">>, <<"l","o","l">>, <<"l","m","a","o">>, <<"f","u","n">>,
    <<"j","o","k","e">>, <<"j","o","k","e","s">>, <<"h","u","m","o","r">>,
    <<"h","u","m","o","u","r">>, <<"v","i","r","a","l">>, <<"t","r","e","n","d","i","n","g">>,
    <<"h","o","t">>, <<"n","e","w">>, <<"b","e","s","t">>, <<"t","o","p">>,
    <<"p","o","p","u","l","a","r">>, <<"e","p","i","c">>, <<"a","w","e","s","o","m","e">>,
    <<"a","m","a","z","i","n","g">>, <<"g","r","e","a","t">>, <<"g","o","o","d">>,
    <<"b","a","d">>, <<"w","t","f">>, <<"o","m","g">>, <<"c","a","t">>, <<"c","a","t","s">>,
    <<"d","o","g">>, <<"d","o","g","s">>, <<"p","e","t">>, <<"p","e","t","s">>,
    <<"a","n","i","m","a","l">>, <<"a","n","i","m","a","l","s">>, <<"t","o","d","a","y">>,
    <<"y","e","s","t","e","r","d","a","y">>, <<"t","o","m","o","r","r","o","w">>,
    <<"n","o","w">>, <<"l","a","t","e","s","t">>, <<"r","e","c","e","n","t">>, <<"o","l","d">>,
    <<"y","e","a","r">>, <<"m","o","n","t","h">>, <<"d","a","y">>, <<"t","i","m","e">>,
    <<"c","o","n","t","e","n","t">>, <<"t","h","i","n","g">>, <<"t","h","i","n","g","s">>,
    <<"s","t","u","f","f">>, <<"i","t","e","m">>, <<"i","t","e","m","s">>, <<"o","n","e">>,
    <<"t","w","o">>, <<"f","i","r","s","t">>, <<"l","a","s","t">>, <<"n","e","x","t">>
  }

\* A word filter that lets common terms into the index.
KeepContentWordAndCommonTerms(word) ==
  /\ Len(word) >= MIN_WORD_LENGTH
  /\ Len(word) <= MAX_WORD_LENGTH
  /\ word \notin STOP_WORDS

\* The word filter of preprocessContent.
KeepContentWord(word) ==
  /\ Len(word) >= MIN_WORD_LENGTH
  /\ Len(word) <= MAX_WORD_LENGTH
  /\ word \notin STOP_WORDS
  /\ word \notin COMMON_TERMS

\* preprocessContent: lower-case, split into words, drop stop words, common
\* terms and words shorter than 2 or longer than 50, join with single spaces.
preprocessContent(content) ==
  IF content = <<>> THEN <<>>
  ELSE JoinWords(SelectSeq(SplitWords(ReplaceNonWord(toLowerCase(content)), <<>>),
                           KeepContentWord))

\* processedContent.slice(0, 500): what indexDocumentChunk stores for a
\* document's content.
TruncatedContent(content) == Slice(preprocessContent(content), MAX_CONTENT_LENGTH)

\* The contents callers pass: "Rust!" is stored as "rust", "The cat" as "" (a
\* stop word and a common term).
ContentRust == <<"R","u","s","t","!">>
ContentTheCat == <<"T","h","e"," ","c","a","t">>

RawContents == {ContentRust, ContentTheCat}

\* A content longer than the cut: "rust " 99 times, then "go tomato"; the
\* cut after 500 characters falls inside "tomato".
ContentLong ==
  [i \in 1..495 |-> <<"r","u","s","t"," ">>[((i - 1) % 5) + 1]]
    \o <<"g","o"," ","t","o","m","a","t","o">>

\* Every content a shard of the model is asked to store: what callers pass,
\* and what another shard stored and passes on.
KnownContents ==
  LET raw == RawContents \cup {ContentLong}
  IN  raw \cup {TruncatedContent(c) : c \in raw}
          \cup {TruncatedContent(TruncatedContent(c)) : c \in raw}

\* TruncatedContent, tabulated over the contents of the model.
StoredContentTable == [c \in KnownContents |-> TruncatedContent(c)]

StoredContent(content) == StoredContentTable[content]

(***************************************************************************)
(* JavaScript values of a document's fields, and documents.                *)
(***************************************************************************)
Str(s) == [type |-> "string", str |-> s]
Num(n) == [type |-> "number", num |-> n]
Undefined == [type |-> "undefined"]
Null == [type |-> "null"]

Doc(id, content) == [id |-> id, content |-> content]

(***************************************************************************)
(* validateDocument / validateDocuments (types.ts).                        *)
(***************************************************************************)
\* The errors validateDocument reports for the id.
IdErrors(doc, idType) ==
  IF idType = "integer"
    THEN IF doc.id.type # "number" \/ doc.id.num < 0
           THEN <<[field |-> "id", message |-> "ID must be a non-negative integer"]>>
           ELSE <<>>
  ELSE IF doc.id.type # "string"
    THEN <<[field |-> "id", message |-> "ID must be a string"]>>
  ELSE IF Len(doc.id.str) = 0
    THEN <<[field |-> "id", message |-> "ID cannot be empty"]>>
  ELSE IF Len(doc.id.str) > MAX_ID_LENGTH
    THEN <<[field |-> "id", message |-> "ID cannot be longer than 255 characters"]>>
  ELSE <<>>

\* The errors validateDocument reports for the content.
ContentErrors(doc) ==
  IF doc.content.type # "string"
    THEN <<[field |-> "content", message |-> "Content must be a string"]>>
  ELSE IF Len(doc.content.str) = 0
    THEN <<[field |-> "content", message |-> "Content cannot be empty"]>>
  ELSE <<>>

validateDocument(doc, idType) ==
  LET errors == IdErrors(doc, idType) \o ContentErrors(doc)
  IN  [valid |-> errors = <<>>, errors |-> errors]

\* The errors of docs[k..], each tagged with the index of its document.
RECURSIVE BatchErrors(_, _, _)
BatchErrors(docs, k, idType) ==
  IF k > Len(docs) THEN <<>>
  ELSE LET es == validateDocument(docs[k], idType).errors
       IN  [j \in DOMAIN es |-> [index |-> k - 1, field |-> es[j].field,
                                message |-> es[j].message]]
           \o BatchErrors(docs, k + 1, idType)

ValidDoc(doc, idType) == validateDocument(doc, idType).valid

\* A validation that lets the documents that passed through when others failed.
validateDocumentsPartial(docs, idType) ==
  [valid  |-> TRUE,
   data   |-> SelectSeq(docs, LAMBDA d : ValidDoc(d, idType)),
   errors |-> BatchErrors(docs, 1, idType)]

\* validateDocuments: valid only when no document has an error; data holds the
\* documents that passed.
validateDocuments(docs, idType) ==
  LET errors == BatchErrors(docs, 1, idType)
  IN  [valid  |-> errors = <<>>,
       data   |-> SelectSeq(docs, LAMBDA d : ValidDoc(d, idType)),
       errors |-> errors]

(***************************************************************************)
(* The store: the rows of the FTS5 table `documents`.  A row is            *)
(* [rowid, id, content].  The table is the one initialize() creates for    *)
(* string ids (id UNINDEXED, content); an INSERT that names no rowid gets  *)
(* the largest rowid of the table plus one (SQLite's rule for a rowid      *)
(* table without AUTOINCREMENT), 1 in an empty table.                      *)
(***************************************************************************)
Row(rowid, id, content) == [rowid |-> rowid, id |-> id, content |-> content]

Rowids(rows) == {r.rowid : r \in rows}

NextRowid(rows) == IF rows = {} THEN 1 ELSE Max(Rowids(rows)) + 1

\* The rows of `rows` in rowid order (ORDER BY rowid ASC).
RECURSIVE SortByRowid(_)
SortByRowid(rows) ==
  IF rows = {} THEN <<>>
  ELSE LET r == CHOOSE x \in rows : \A y \in rows : x.rowid <= y.rowid
       IN  <<r>> \o SortByRowid(rows \ {r})

\* DELETE FROM documents WHERE id IN (...)
DeleteByIds(rows, ids) == {r \in rows : r.id \notin ids}

\* INSERT INTO documents (id, content) VALUES (...), (...): one row per
\* document, in order, each with the next rowid.
RECURSIVE InsertDocs(_, _)
InsertDocs(rows, docs) ==
  IF docs = <<>> THEN rows
  ELSE InsertDocs(rows \cup {Row(NextRowid(rows), Head(docs).id,
                                 StoredContent(Head(docs).content.str))},
                  Tail(docs))

\* REPLACE INTO documents(rowid, content) VALUES (...): the row with that
\* rowid is replaced; the id column is not written.
RECURSIVE ReplaceDocs(_, _)
ReplaceDocs(rows, docs) ==
  IF docs = <<>> THEN rows
  ELSE ReplaceDocs({r \in rows : r.rowid # Head(docs).id.num}
                     \cup {Row(Head(docs).id.num, Null,
                               StoredContent(Head(docs).content.str))},
                   Tail(docs))

\* An upsert that inserts without deleting the rows of the chunk's ids first.
UpsertChunkWithoutDelete(rows, chunk) == InsertDocs(rows, chunk)

\* indexDocumentChunk, string ids: delete the rows with the chunk's ids, then
\* insert the chunk.
UpsertChunk(rows, chunk) ==
  InsertDocs(DeleteByIds(rows, {chunk[i].id : i \in DOMAIN chunk}), chunk)

indexDocumentChunk(rows, chunk, idType) ==
  IF idType = "integer" THEN ReplaceDocs(rows, chunk) ELSE UpsertChunk(rows, chunk)

\* indexDocumentsInternal: the documents in chunks of CHUNK_SIZE, in order.
RECURSIVE indexDocumentsInternal(_, _, _)
indexDocumentsInternal(rows, documents, idType) ==
  IF documents = <<>> THEN rows
  ELSE LET n == Min2(CHUNK_SIZE, Len(documents))
       IN  indexDocumentsInternal(
             indexDocumentChunk(rows, SubSeq(documents, 1, n), idType),
             SubSeq(documents, n + 1, Len(documents)), idType)

\* The {id, content} documents syncToReplicas and purgeOldData build from rows.
RowDocs(rowSeq) == [i \in DOMAIN rowSeq |-> Doc(rowSeq[i].id, Str(rowSeq[i].content))]

(***************************************************************************)
(* The query side: preprocessQuery, analyzeQuery and the local search.     *)
(***************************************************************************)
HIGH_COST_LIMIT == 50
MEDIUM_COST_LIMIT == 200
DEFAULT_MAX_RESULTS == 100

\* The word filter of preprocessQuery: only stop words and one-character
\* words are dropped, and the word keeps its case.
KeepQueryWord(word) ==
  Len(toLowerCase(word)) >= MIN_WORD_LENGTH /\ toLowerCase(word) \notin STOP_WORDS

preprocessQuery(query) ==
  IF query = <<>> THEN <<>>
  ELSE JoinWords(SelectSeq(SplitWords(ReplaceNonWord(query), <<>>), KeepQueryWord))

IsCommonWord(word) == word \in STOP_WORDS \/ word \in COMMON_TERMS

\* analyzeQuery with the rejection at a ratio of 0.8 and above.
analyzeQueryFromFourFifths(query) ==
  LET words == SplitWords(ReplaceNonWord(toLowerCase(query)), <<>>)
      common == Len(SelectSeq(words, IsCommonWord))
      total == Len(words)
  IN  IF query = <<>> \/ total = 0
        THEN [isValid |-> FALSE, isTooCommon |-> FALSE, common |-> 0, total |-> 0,
              estimatedCost |-> "low"]
      ELSE [isValid |-> TRUE,
            isTooCommon |-> 5 * common >= 4 * total,
            common |-> common, total |-> total,
            estimatedCost |-> IF common = 0 THEN "low"
                              ELSE IF 2 * common < total THEN "medium"
                              ELSE "high"]

\* analyzeQuery: commonTermsRatio = common / total is kept as the two counts;
\* ratio > 0.8 is 5 * common > 4 * total, ratio < 0.5 is 2 * common < total.
analyzeQuery(query) ==
  LET words == SplitWords(ReplaceNonWord(toLowerCase(query)), <<>>)
      common == Len(SelectSeq(words, IsCommonWord))
      total == Len(words)
  IN  IF query = <<>> \/ total = 0
        THEN [isValid |-> FALSE, isTooCommon |-> FALSE, common |-> 0, total |-> 0,
              estimatedCost |-> "low"]
      ELSE [isValid |-> TRUE,
            isTooCommon |-> 5 * common > 4 * total,
            common |-> common, total |-> total,
            estimatedCost |-> IF common = 0 THEN "low"
                              ELSE IF 2 * common < total THEN "medium"
                              ELSE "high"]

\* Queries of every ratio of common terms: "Rust go lol" (1/3), "Rust lol"
\* (1/2), "lol lol lol lol go" (4/5), "lol" (1), and "the; Rust", whose stop
\* word the preprocessing removes.
PlanQueries ==
  {<<"R","u","s","t"," ","g","o"," ","l","o","l">>,
   <<"R","u","s","t"," ","l","o","l">>,
   <<"l","o","l"," ","l","o","l"," ","l","o","l"," ","l","o","l"," ","g","o">>,
   <<"l","o","l">>,
   <<"t","h","e",";"," ","R","u","s","t">>}

\* The query texts the requests of the model carry; their processed forms and
\* analyses are computed once.
KnownQueries ==
  {<<"r","u","s","t">>, <<"R","u","s","t">>, <<"t","h","e">>, <<"c","a","t">>, <<>>}
    \cup PlanQueries

ProcessedQueryTable == [q \in KnownQueries |-> preprocessQuery(q)]

ProcessedQuery(query) == ProcessedQueryTable[query]

QueryAnalysisTable == [q \in Range(ProcessedQueryTable) |-> analyzeQuery(q)]

QueryAnalysis(processedQuery) == QueryAnalysisTable[processedQuery]

\* The row cap search() applies for a query's cost.
EffectiveMaxResults(cost, maxResults) ==
  IF cost = "high" THEN Min2(maxResults, HIGH_COST_LIMIT)
  ELSE IF cost = "medium" THEN Min2(maxResults, MEDIUM_COST_LIMIT)
  ELSE maxResults

\* documents MATCH ?: every word of the query is a word of the row's content
\* (the tokenizer's stemming is not modelled).
Matches(row, ftsQuery) ==
  \A w \in Range(SplitWords(toLowerCase(ftsQuery), <<>>)) :
     w \in Range(SplitWords(row.content, <<>>))

\* search(): the local hits, at most the row cap of them.
search(rows, queryText, maxResults) ==
  LET processedQuery == ProcessedQuery(queryText)
      analysis == QueryAnalysis(processedQuery)
      hits == SortByRowid({r \in rows : Matches(r, processedQuery)})
  IN  IF processedQuery = <<>> \/ analysis.isTooCommon THEN <<>>
      ELSE Slice(hits, EffectiveMaxResults(analysis.estimatedCost, maxResults))

(***************************************************************************)
(* Shards, replica descriptors and configurations.                         *)
(***************************************************************************)
Primary == <<"primary", 0>>
Replica(k) == <<"replica", k>>
Cold(i) == <<"cold", i>>

Replicas == {Replica(1), Replica(2)}
ColdShards == {Cold(i) : i \in 0..MaxColdIndex}
Shards == {Primary} \cup Replicas \cup ColdShards

\* ReplicaInfo values: a regional replica, a local replica, and a descriptor
\* with an empty name, for which getReplicaStub returns null.
RegionReplica == [type |-> "region", name |-> <<"w","e","u","r">>, id |-> <<>>]
LocalReplica == [type |-> "local", name |-> <<>>, id |-> <<"r","2">>]
BadReplica == [type |-> "region", name |-> <<>>, id |-> <<>>]

NoStub == <<"none", 0>>

\* getReplicaStub: the shard a descriptor addresses, NoStub for null.
getReplicaStub(replicaInfo) ==
  IF replicaInfo.type = "region" /\ replicaInfo.name # <<>>
    THEN (IF replicaInfo = RegionReplica THEN Replica(1) ELSE NoStub)
  ELSE IF replicaInfo.type = "local" /\ replicaInfo.id # <<>>
    THEN (IF replicaInfo = LocalReplica THEN Replica(2) ELSE NoStub)
  ELSE NoStub

\* this.config of a fresh object ({}): every key unset.  An unset key is
\* modelled by the value the code's `||` and truthiness tests treat alike:
\* 0, FALSE, the empty list, and "" for idType.
EmptyConfig ==
  [isReadOnly |-> FALSE,
   idType |-> "",
   replicas |-> <<>>,
   purgeThresholdDocs |-> 0,
   purgeTargetDocs |-> 0,
   coldStorageThresholdDocs |-> 0,
   currentColdStorageIndex |-> 0]

\* A configure that keeps nothing of the old configuration.
ReplaceConfig(old, newConfig) ==
  [k \in DOMAIN old |-> IF k \in DOMAIN newConfig THEN newConfig[k] ELSE EmptyConfig[k]]

\* { ...this.config, ...newConfig }
MergeConfig(old, newConfig) ==
  [k \in DOMAIN old |-> IF k \in DOMAIN newConfig THEN newConfig[k] ELSE old[k]]

\* this.config.idType || "string"
IdTypeOf(cfg) == IF cfg.idType = "" THEN "string" ELSE cfg.idType

(***************************************************************************)
(* State.                                                                  *)
(***************************************************************************)
VARIABLES
  store,         \* store[s]: the rows of shard s's table
  config,        \* config[s]: this.config of shard s (in memory)
  stored,        \* stored[s]: the persisted keys of shard s: config,
                 \* lastSyncRowId, currentColdStorageIndex
  alarmAt,       \* alarmAt[s]: "none", "set" (a timer is pending) or
                 \* "failed" (the last alarm() threw)
  run,           \* the primary's alarm() invocation: its position and locals
  ret,           \* what the last RPC from outside returned to its caller
  cache,         \* the SEARCH_CACHE namespace: cache[key] is the entry under key
  req,           \* the worker's /search handler in flight: its position and locals
  consumer       \* the worker's queue handler: its position, its batch's
                 \* documents, what indexDocuments returned, and how often it
                 \* called ackAll and retryAll

vars == <<store, config, stored, alarmAt, run, ret, cache, req, consumer>>

\* No reply of indexDocuments yet.  `committed` records whether the call left a
\* row for every document of the batch.
NoResult == [success |-> FALSE, indexed |-> 0, committed |-> FALSE]

IdleConsumer ==
  [pc |-> "idle", documents |-> <<>>, result |-> NoResult, acked |-> 0, retried |-> 0]

\* The schema version initialize() creates and records; MaxDbVersion is the
\* highest version another release may have left in a store.
DB_VERSION == 1
MaxDbVersion == 2

\* The migration transaction of initialize(): a version below 1 is brought
\* to 1 (the table is created), any other version is left as it is.
MigratedVersion(version) == IF version < DB_VERSION THEN DB_VERSION ELSE version

IdleRun ==
  [pc |-> "idle", newDocs |-> <<>>, out |-> <<>>,
   docsToPurge |-> <<>>, remaining |-> <<>>, toMove |-> <<>>,
   coldIndex |-> 0, threshold |-> 0, statsCount |-> 0, available |-> 0]

NoRet == [op |-> "none", shard |-> NoStub, success |-> TRUE, n |-> 0]

Reply(op, s, success, n) == [op |-> op, shard |-> s, success |-> success, n |-> n]

\* getCacheKey: `search:${query.toLowerCase().trim()}` with ":cold" or ":hot".
getCacheKey(query, includeCold) == [query |-> toLowerCase(query), cold |-> includeCold]

\* The keys the worker can use: one per processed query and includeCold.
CacheKeys ==
  {getCacheKey(q, c) : q \in Range(ProcessedQueryTable) \ {<<>>}, c \in BOOLEAN}

\* No entry under a key (kv.get returns null).
NoEntry == [present |-> FALSE, results |-> <<>>, outdated |-> FALSE]

\* A CachedSearchResult.  `outdated` is bookkeeping, not a field of the
\* program: whether an Index committed after the results were computed.
Entry(results, outdated) == [present |-> TRUE, results |-> results, outdated |-> outdated]

\* invalidateCache(kv): every key with the prefix "search:" is deleted.
invalidateCache(c) == [k \in DOMAIN c |-> NoEntry]

\* The worker's handler between requests.
IdleReq ==
  [pc |-> "idle", query |-> <<>>, includeCold |-> FALSE, maxResults |-> 0,
   results |-> <<>>, outdated |-> FALSE]

\* The state after construction: initialize() found no config and created the
\* table; nothing is stored, no alarm is set, and the cache is empty.
Init ==
  /\ store = [s \in Shards |-> {}]
  /\ config = [s \in Shards |-> EmptyConfig]
  /\ stored = [s \in Shards |->
                 [config |-> EmptyConfig, lastSyncRowId |-> 0,
                  currentColdStorageIndex |-> 0, db_version |-> DB_VERSION]]
  /\ alarmAt = [s \in Shards |-> "none"]
  /\ run = IdleRun
  /\ ret = NoRet
  /\ cache = [k \in CacheKeys |-> NoEntry]
  /\ req = IdleReq
  /\ consumer = IdleConsumer

\* The primary is inside a stretch of alarm() that no other event of the
\* primary can interleave with (no RPC is awaited; storage awaits keep the
\* input gate closed).
Gated(s) == s = Primary /\ run.pc \in {"sync", "purge", "rearm"}

(***************************************************************************)
(* RPC methods of a shard.                                                 *)
(***************************************************************************)
\* A write path that does not look at isReadOnly.
WriteResultIgnoringReadOnly(cfg, rows, documents) ==
  LET validation == validateDocuments(documents, IdTypeOf(cfg))
  IN  IF ~validation.valid
        THEN [success |-> FALSE, n |-> 0, rows |-> rows, error |-> "invalid"]
      ELSE [success |-> TRUE, n |-> Len(validation.data),
            rows |-> indexDocumentsInternal(rows, validation.data, IdTypeOf(cfg)),
            error |-> ""]

\* The rows indexDocuments / syncDocuments leave in `rows` for a batch:
\* unchanged when the shard is read-only or the batch fails validation.
WriteResult(cfg, rows, documents) ==
  LET validation == validateDocuments(documents, IdTypeOf(cfg))
  IN  IF cfg.isReadOnly
        THEN [success |-> FALSE, n |-> 0, rows |-> rows, error |-> "read-only"]
      ELSE IF ~validation.valid
        THEN [success |-> FALSE, n |-> 0, rows |-> rows, error |-> "invalid"]
      ELSE [success |-> TRUE, n |-> Len(validation.data),
            rows |-> indexDocumentsInternal(rows, validation.data, IdTypeOf(cfg)),
            error |-> ""]

\* A write path that never invalidates the cache.
CacheAfterWriteKept(res, c) == c

\* The cache after indexDocuments / syncDocuments returned res: a call that
\* stored documents has awaited invalidateCache before it returns.
CacheAfterWrite(res, c) ==
  IF res.success /\ res.n > 0 THEN invalidateCache(c) ELSE c

\* The worker's handler after an Index returned res: results it holds and has
\* not cached yet were computed before this Index.
ReqAfterIndex(res, r) ==
  IF res.success /\ res.n > 0 /\ r.pc = "fill" THEN [r EXCEPT !.outdated = TRUE] ELSE r

\* Whether the model issues the write: the rowids it assigns stay in bounds.
\* Calls from outside and the moves to cold shards are held to MaxRowid; the
\* writes of the primary on its replicas are followed up to twice that.
InBounds(rows) == \A r \in rows : r.rowid <= MaxRowid

InnerInBounds(rows) == \A r \in rows : r.rowid <= 2 * MaxRowid

indexDocuments(s, documents) ==
  LET res == WriteResult(config[s], store[s], documents)
  IN  /\ ~Gated(s)
      /\ InBounds(res.rows)
      /\ store' = [store EXCEPT ![s] = res.rows]
      /\ ret' = Reply("index", s, res.success, res.n)
      /\ cache' = CacheAfterWrite(res, cache)
      /\ req' = ReqAfterIndex(res, req)
      /\ UNCHANGED <<config, stored, alarmAt, run, consumer>>

syncDocuments(s, documents) ==
  LET res == WriteResult(config[s], store[s], documents)
  IN  /\ ~Gated(s)
      /\ InBounds(res.rows)
      /\ store' = [store EXCEPT ![s] = res.rows]
      /\ ret' = Reply("sync", s, res.success, res.n)
      /\ cache' = CacheAfterWrite(res, cache)
      /\ UNCHANGED <<config, stored, alarmAt, run, req, consumer>>

\* getStats: the row count (and the read-only flag); never writes.
getStats(s) ==
  /\ ~Gated(s)
  /\ ret' = Reply("stats", s, TRUE, Cardinality(store[s]))
  /\ UNCHANGED <<store, config, stored, alarmAt, run, cache, req, consumer>>

\* configure: merge, persist, and set the first alarm when none is set.
configure(s, newConfig) ==
  /\ ~Gated(s)
  /\ config' = [config EXCEPT ![s] = MergeConfig(config[s], newConfig)]
  /\ stored' = [stored EXCEPT ![s].config = MergeConfig(config[s], newConfig)]
  /\ alarmAt' = [alarmAt EXCEPT ![s] = "set"]
  /\ ret' = Reply("configure", s, TRUE, 0)
  /\ UNCHANGED <<store, run, cache, req, consumer>>

\* searchDocuments without cold storage: the local hits; never writes.
searchDocuments(s, query) ==
  /\ ~Gated(s)
  /\ ret' = Reply("search", s, TRUE,
                  IF query = <<>> THEN 0
                  ELSE Len(search(store[s], query, DEFAULT_MAX_RESULTS)))
  /\ UNCHANGED <<store, config, stored, alarmAt, run, cache, req, consumer>>

(***************************************************************************)
(* searchDocuments with its failure paths and cold storage.  The outcome   *)
(* of a query on a shard's table is an input: "ok", "fallback" (sql.exec   *)
(* threw and the quoted-phrase query ran) or "failed" (both threw); the    *)
(* searchDocuments RPC to a cold shard can also throw ("throws").  Hits    *)
(* are kept in rowid order, the local ones first; rank is not modelled.    *)
(***************************************************************************)
FALLBACK_LIMIT == 50

\* Whether seq p occurs in seq w as a run of neighbours.
IsInfix(p, w) ==
  \E k \in 0..(Len(w) - Len(p)) : \A j \in DOMAIN p : w[k + j] = p[j]

\* documents MATCH '"<queryText>"': the words of the query, in order, are
\* neighbours in the row's content.
PhraseMatches(row, queryText) ==
  LET words == SplitWords(ReplaceNonWord(toLowerCase(queryText)), <<>>)
  IN  words # <<>> /\ IsInfix(words, SplitWords(row.content, <<>>))

\* The catch branch of search(): the quoted-phrase query with its own limit.
searchFallback(rows, queryText) ==
  Slice(SortByRowid({r \in rows : PhraseMatches(r, queryText)}), FALLBACK_LIMIT)

\* search() with the outcome of its query: the early returns come before the
\* query runs.
searchWithOutcome(rows, queryText, maxResults, outcome) ==
  LET processedQuery == ProcessedQuery(queryText)
  IN  IF processedQuery = <<>> \/ QueryAnalysis(processedQuery).isTooCommon THEN <<>>
      ELSE IF outcome = "ok" THEN search(rows, queryText, maxResults)
      ELSE IF outcome = "fallback" THEN searchFallback(rows, queryText)
      ELSE <<>>

\* What searchDocuments of a shard returns for a request without includeCold.
searchDocumentsLocal(rows, queryText, maxResults, outcome) ==
  IF queryText = <<>> \/ outcome = "throws" THEN <<>>
  ELSE searchWithOutcome(rows, queryText, maxResults, outcome)

\* Math.max(1, Math.ceil(maxResults / currentIndex))
ResultsPerDO(maxResults, currentIndex) ==
  IF (maxResults + currentIndex - 1) \div currentIndex >= 1
    THEN (maxResults + currentIndex - 1) \div currentIndex
    ELSE 1

\* The hits of cold shards i..currentIndex-1, one after the other (a shard
\* beyond the last one of the model holds nothing).
RECURSIVE ColdHits(_, _, _, _, _, _)
ColdHits(st, i, currentIndex, queryText, perDO, coldOutcomes) ==
  IF i >= currentIndex THEN <<>>
  ELSE (IF i <= MaxColdIndex
          THEN searchDocumentsLocal(st[Cold(i)], queryText, perDO, coldOutcomes[i])
          ELSE <<>>)
       \o ColdHits(st, i + 1, currentIndex, queryText, perDO, coldOutcomes)

\* A searchColdStorage whose per-shard promises have no catch: one failing
\* shard rejects Promise.all, and searchDocuments returns [] from its catch.
searchColdStorageWithoutCatch(st, cfg, queryText, maxResults, coldOutcomes) ==
  IF cfg.currentColdStorageIndex = 0 \/ maxResults <= 0 THEN [threw |-> FALSE, hits |-> <<>>]
  ELSE IF \E i \in 0..(cfg.currentColdStorageIndex - 1) : coldOutcomes[i] = "throws"
    THEN [threw |-> TRUE, hits |-> <<>>]
  ELSE [threw |-> FALSE,
        hits |-> Slice(ColdHits(st, 0, cfg.currentColdStorageIndex, queryText,
                                ResultsPerDO(maxResults, cfg.currentColdStorageIndex),
                                coldOutcomes), maxResults)]

\* searchColdStorage: every cold shard below currentColdStorageIndex is asked
\* for resultsPerDO hits; a shard whose call throws counts as []; the merged
\* hits are cut to maxResults.
searchColdStorage(st, cfg, queryText, maxResults, coldOutcomes) ==
  IF cfg.currentColdStorageIndex = 0 \/ maxResults <= 0 THEN [threw |-> FALSE, hits |-> <<>>]
  ELSE [threw |-> FALSE,
        hits |-> Slice(ColdHits(st, 0, cfg.currentColdStorageIndex, queryText,
                                ResultsPerDO(maxResults, cfg.currentColdStorageIndex),
                                coldOutcomes), maxResults)]

\* The list searchDocuments(params) returns on shard s with stores st and
\* config cfg: the local hits, with includeCold on a shard that is not
\* read-only and has a non-zero cold index the cold hits merged in and the
\* list cut to maxResults; [] when anything inside the try block threw.
searchDocumentsResult(st, cfg, s, params, outcomes) ==
  LET results == searchWithOutcome(st[s], params.query, params.maxResults, outcomes.local)
      cold == searchColdStorage(st, cfg, params.query,
                                IF params.maxResults - Len(results) > 0
                                  THEN params.maxResults - Len(results) ELSE 0,
                                outcomes.cold)
  IN  IF params.query = <<>> THEN <<>>
      ELSE IF params.includeCold /\ ~cfg.isReadOnly /\ cfg.currentColdStorageIndex # 0
        THEN (IF cold.threw THEN <<>>
              ELSE Slice(results \o cold.hits, params.maxResults))
      ELSE results

\* searchDocuments(params) served by shard s; never writes.
searchDocumentsRequest(s, params, outcomes) ==
  /\ ~Gated(s)
  /\ ret' = Reply("search", s, TRUE,
                  Len(searchDocumentsResult(store, config[s], s, params, outcomes)))
  /\ UNCHANGED <<store, config, stored, alarmAt, run, cache, req, consumer>>

(***************************************************************************)
(* searchDocuments with rank.  rank is FTS5's bm25 score of a row in its   *)
(* own table (smaller is better); the score is an input here: rk maps      *)
(* <<shard, rowid>> to the row's rank for the query.  Rows of equal rank   *)
(* come in rowid order, and Array.prototype.sort is stable.                *)
(***************************************************************************)
MaxRank == 2

\* The rows a search can rank: those of the primary and of the cold shards.
RankedRows(st) ==
  UNION {{<<s, r.rowid>> : r \in st[s]} : s \in {Primary} \cup ColdShards}

RankInputs(st) == [RankedRows(st) -> 1..MaxRank]

\* A SearchResult {id, content, rank}, with the shard and rowid it came from.
Hit(s, row, rk) ==
  [shard |-> s, rowid |-> row.rowid, id |-> row.id, rank |-> rk[<<s, row.rowid>>]]

\* h put behind the last element of `sorted` whose rank is not larger.
RECURSIVE InsertByRank(_, _)
InsertByRank(sorted, h) ==
  IF sorted = <<>> THEN <<h>>
  ELSE IF sorted[Len(sorted)].rank <= h.rank THEN Append(sorted, h)
  ELSE Append(InsertByRank(SubSeq(sorted, 1, Len(sorted) - 1), h), sorted[Len(sorted)])

\* results.sort((a, b) => a.rank - b.rank): ascending, equal ranks keep
\* their order.
RECURSIVE SortByRank(_)
SortByRank(hits) ==
  IF hits = <<>> THEN <<>>
  ELSE InsertByRank(SortByRank(SubSeq(hits, 1, Len(hits) - 1)), hits[Len(hits)])

\* search() of shard s: ... WHERE documents MATCH ? ORDER BY rank LIMIT ?
searchRanked(st, s, queryText, maxResults, rk) ==
  LET processedQuery == ProcessedQuery(queryText)
      analysis == QueryAnalysis(processedQuery)
      matching == SortByRowid({r \in st[s] : Matches(r, processedQuery)})
      hits == [i \in DOMAIN matching |-> Hit(s, matching[i], rk)]
  IN  IF processedQuery = <<>> \/ analysis.isTooCommon THEN <<>>
      ELSE Slice(SortByRank(hits), EffectiveMaxResults(analysis.estimatedCost, maxResults))

\* The answers of cold shards i..currentIndex-1 to searchDocuments({query,
\* maxResults: perDO}), one after the other.
RECURSIVE ColdHitsRanked(_, _, _, _, _, _)
ColdHitsRanked(st, i, currentIndex, queryText, perDO, rk) ==
  IF i >= currentIndex THEN <<>>
  ELSE (IF i <= MaxColdIndex /\ queryText # <<>>
          THEN searchRanked(st, Cold(i), queryText, perDO, rk)
          ELSE <<>>)
       \o ColdHitsRanked(st, i + 1, currentIndex, queryText, perDO, rk)

\* searchColdStorage(queryText, maxResults) when every shard answers.
searchColdStorageRanked(st, cfg, queryText, maxResults, rk) ==
  IF cfg.currentColdStorageIndex = 0 \/ maxResults <= 0 THEN <<>>
  ELSE Slice(SortByRank(ColdHitsRanked(st, 0, cfg.currentColdStorageIndex, queryText,
                                       ResultsPerDO(maxResults, cfg.currentColdStorageIndex),
                                       rk)),
             maxResults)

\* searchDocuments(params) on shard s when no query fails: the local hits;
\* with includeCold the cold hits for what maxResults leaves are pushed
\* behind them, and the list is sorted by rank and cut to maxResults.
searchDocumentsRanked(st, cfg, s, params, rk) ==
  LET results == searchRanked(st, s, params.query, params.maxResults, rk)
      coldResults == searchColdStorageRanked(st, cfg, params.query,
                                             IF params.maxResults - Len(results) > 0
                                               THEN params.maxResults - Len(results) ELSE 0,
                                             rk)
  IN  IF params.query = <<>> THEN <<>>
      ELSE IF params.includeCold /\ ~cfg.isReadOnly /\ cfg.currentColdStorageIndex # 0
        THEN Slice(SortByRank(results \o coldResults), params.maxResults)
      ELSE results

(***************************************************************************)
(* The cross-shard calls of one searchDocuments.                           *)
(***************************************************************************)
\* A router whose stub for every index is the primary.
coldStorageStubPrimary(i) == Primary

\* env.COLD_STORAGE_DO.get(idFromName(`${coldStoragePrefix}-${i}`))
coldStorageStub(i) == Cold(i)

\* The params searchColdStorage sends: { query, maxResults: resultsPerDO };
\* includeCold is not sent, so the callee takes its default, false.
ColdSearchParams(queryText, resultsPerDO) ==
  [query |-> queryText, includeCold |-> FALSE, maxResults |-> resultsPerDO]

\* The searchDocuments calls that searchDocuments(params) on shard s makes to
\* other shards, when its local query ends with `outcome`.
SearchCalls(st, cf, s, params, outcome) ==
  LET results == searchWithOutcome(st[s], params.query, params.maxResults, outcome)
      remaining == IF params.maxResults - Len(results) > 0
                     THEN params.maxResults - Len(results) ELSE 0
      currentIndex == cf[s].currentColdStorageIndex
  IN  IF params.query = <<>> THEN {}
      ELSE IF ~(params.includeCold /\ ~cf[s].isReadOnly /\ currentIndex # 0) THEN {}
      ELSE IF remaining <= 0 THEN {}
      ELSE {[to |-> coldStorageStub(i),
             params |-> ColdSearchParams(params.query, ResultsPerDO(remaining, currentIndex))] :
              i \in 0..(currentIndex - 1)}

(***************************************************************************)
(* alarm() on the primary.  The handler is followed through its awaits:    *)
(* run.pc is "idle" between invocations; "sync", "purge" and "rearm" are   *)
(* stretches no other event interleaves with; "sync_wait", "p_stats",      *)
(* "p_index" and "p_conf" are awaits of RPCs to other shards, during which *)
(* the primary serves other calls.                                         *)
(***************************************************************************)
P == Primary

\* alarm() returns or throws without reaching setAlarm: the handler ends.  A
\* throw leaves the alarm to the runtime's re-delivery unless a timer is set.
AfterThrow == [alarmAt EXCEPT ![P] = IF alarmAt[P] = "set" THEN "set" ELSE "failed"]

\* The timer fires (or the runtime re-delivers a failed alarm): alarm() starts.
\* A read-only shard returns at once and sets no new alarm.
alarm ==
  /\ alarmAt[P] \in {"set", "failed"}
  /\ run.pc = "idle"
  /\ alarmAt' = [alarmAt EXCEPT ![P] = "none"]
  /\ run' = IF config[P].isReadOnly THEN IdleRun
            ELSE [IdleRun EXCEPT !.pc = IF Len(config[P].replicas) > 0
                                          THEN "sync" ELSE "purge"]
  /\ UNCHANGED <<store, config, stored, ret, cache, req, consumer>>

\* A scan that returns every row, whatever the cursor.
ScanAll(rows, lastSyncRowId) == SortByRowid(rows)

\* SELECT rowid, id, content FROM documents WHERE rowid > ?
ScanSince(rows, lastSyncRowId) == SortByRowid({r \in rows : r.rowid > lastSyncRowId})

\* Math.max(...newDocs.map(doc => doc.rowid))
MaxRowId(newDocs) == Max({newDocs[i].rowid : i \in DOMAIN newDocs})

\* One syncToReplica call as it starts: no stub, so it returns at once
\* ("ok"), or its syncDocuments RPC is in flight ("pending").
SyncCall(replicaInfo) ==
  [to |-> getReplicaStub(replicaInfo),
   state |-> IF getReplicaStub(replicaInfo) = NoStub THEN "ok" ELSE "pending"]

\* syncToReplicas up to Promise.all: scan the rows after the cursor and start
\* one syncToReplica per configured replica.
syncToReplicas ==
  /\ run.pc = "sync"
  /\ LET newDocs == ScanSince(store[P], stored[P].lastSyncRowId)
     IN  run' = IF newDocs = <<>>
                  THEN [run EXCEPT !.pc = "purge"]
                  ELSE [run EXCEPT !.pc = "sync_wait", !.newDocs = newDocs,
                                   !.out = [k \in DOMAIN config[P].replicas |->
                                              SyncCall(config[P].replicas[k])]]
  /\ UNCHANGED <<store, config, stored, alarmAt, ret, cache, req, consumer>>

\* syncToReplica k: the replica serves syncDocuments and the result comes back.
syncToReplica(k) ==
  /\ run.pc = "sync_wait"
  /\ k \in DOMAIN run.out
  /\ run.out[k].state = "pending"
  /\ LET to == run.out[k].to
         res == WriteResult(config[to], store[to], RowDocs(run.newDocs))
     IN  /\ InnerInBounds(res.rows)
         /\ store' = [store EXCEPT ![to] = res.rows]
         /\ run' = [run EXCEPT !.out[k].state = IF res.success THEN "ok" ELSE "failed"]
         /\ cache' = CacheAfterWrite(res, cache)
  /\ UNCHANGED <<config, stored, alarmAt, ret, req, consumer>>

\* syncToReplica k: the RPC throws (the replica is unreachable).
syncToReplicaFails(k) ==
  /\ run.pc = "sync_wait"
  /\ k \in DOMAIN run.out
  /\ run.out[k].state = "pending"
  /\ run' = [run EXCEPT !.out[k].state = "failed"]
  /\ UNCHANGED <<store, config, stored, alarmAt, ret, cache, req, consumer>>

\* Promise.all resolved: every syncToReplica returned; the cursor moves to the
\* largest scanned rowid and is persisted.
syncComplete ==
  /\ run.pc = "sync_wait"
  /\ \A k \in DOMAIN run.out : run.out[k].state = "ok"
  /\ stored' = [stored EXCEPT ![P].lastSyncRowId = MaxRowId(run.newDocs)]
  /\ run' = [run EXCEPT !.pc = "purge", !.newDocs = <<>>, !.out = <<>>]
  /\ UNCHANGED <<store, config, alarmAt, ret, cache, req, consumer>>

\* Promise.all rejected: a syncToReplica threw, so syncToReplicas and alarm()
\* throw; the cursor is not written.  A call still in flight is lost to the
\* caller (its replica may have served it before, by syncToReplica).
syncRejected ==
  /\ run.pc = "sync_wait"
  /\ \E k \in DOMAIN run.out : run.out[k].state = "failed"
  /\ run' = IdleRun
  /\ alarmAt' = AfterThrow
  /\ UNCHANGED <<store, config, stored, ret, cache, req, consumer>>

(***************************************************************************)
(* purgeOldData, the second half of alarm().                               *)
(***************************************************************************)
\* ... ORDER BY rowid ASC LIMIT ?: a negative LIMIT is no limit in SQLite.
OldestRows(rows, limit) ==
  IF limit < 0 THEN SortByRowid(rows) ELSE Slice(SortByRowid(rows), limit)

\* this.config.purgeTargetDocs || Math.floor(this.config.purgeThresholdDocs || count * 0.8)
TargetDocs(cfg, count) ==
  IF cfg.purgeTargetDocs # 0 THEN cfg.purgeTargetDocs
  ELSE IF cfg.purgeThresholdDocs # 0 THEN cfg.purgeThresholdDocs
  ELSE (count * 8) \div 10

\* coldStorageThresholdDocs || purgeThresholdDocs || 100_000
ColdStorageThreshold(cfg) ==
  IF cfg.coldStorageThresholdDocs # 0 THEN cfg.coldStorageThresholdDocs
  ELSE IF cfg.purgeThresholdDocs # 0 THEN cfg.purgeThresholdDocs
  ELSE DEFAULT_COLD_THRESHOLD

\* docCountThresholdReached || sizeThresholdReached; sizeReached is whether
\* sql.databaseSize exceeds 9 GB.
PurgeTriggered(cfg, count, sizeReached) ==
  (cfg.purgeThresholdDocs # 0 /\ count >= cfg.purgeThresholdDocs) \/ sizeReached

\* The rows purgeOldData selects when a threshold is reached.
DocsToPurge(cfg, rows, sizeReached) ==
  IF ~PurgeTriggered(cfg, Cardinality(rows), sizeReached) THEN <<>>
  ELSE OldestRows(rows, Cardinality(rows) - TargetDocs(cfg, Cardinality(rows)))

\* if (this.config.purgeThresholdDocs) await this.purgeOldData(): whether a
\* tick of alarm() gets past purgeOldData's threshold test.
AlarmTriggersPurge(cfg, count, sizeReached) ==
  cfg.purgeThresholdDocs # 0 /\ PurgeTriggered(cfg, count, sizeReached)

\* The rows a tick of alarm() hands its purge.
AlarmPurgeSelection(cfg, rows, sizeReached) ==
  IF ~AlarmTriggersPurge(cfg, Cardinality(rows), sizeReached) THEN <<>>
  ELSE DocsToPurge(cfg, rows, sizeReached)

\* alarm() after the replication step: purgeOldData is skipped when no
\* purgeThresholdDocs is configured and returns early below both thresholds or
\* with nothing to move; otherwise the loop over cold shards starts.
purgeOldData ==
  /\ run.pc = "purge"
  /\ \E sizeReached \in BOOLEAN :
       LET docs == AlarmPurgeSelection(config[P], store[P], sizeReached)
       IN  run' = IF docs = <<>>
                    THEN [run EXCEPT !.pc = "rearm"]
                    ELSE [run EXCEPT !.pc = "p_stats",
                                     !.docsToPurge = docs, !.remaining = docs,
                                     !.coldIndex = config[P].currentColdStorageIndex,
                                     !.threshold = ColdStorageThreshold(config[P])]
  /\ UNCHANGED <<store, config, stored, alarmAt, ret, cache, req, consumer>>

\* Whether cold shard i answers RPCs at all in this model.
ColdExists(i) == i \in 0..MaxColdIndex

\* The loop body up to the indexDocuments call, given the count getStats
\* returned: a full shard moves the loop to the next index, otherwise the
\* documents that fit are cut off and sent.
AfterStats(r, count) ==
  IF r.threshold - count <= 0
    THEN [r EXCEPT !.coldIndex = r.coldIndex + 1]
    ELSE [r EXCEPT !.pc = "p_index", !.statsCount = count,
                   !.available = r.threshold - count,
                   !.toMove = Slice(r.remaining, r.threshold - count),
                   !.remaining = SubSeq(r.remaining, r.threshold - count + 1,
                                        Len(r.remaining))]

\* getStats of the current cold shard returns its row count.
purgeGetStats ==
  /\ run.pc = "p_stats"
  /\ ColdExists(run.coldIndex)
  /\ run' = AfterStats(run, Cardinality(store[Cold(run.coldIndex)]))
  /\ UNCHANGED <<store, config, stored, alarmAt, ret, cache, req, consumer>>

\* getStats throws: the shard is taken to be empty.
purgeGetStatsFails ==
  /\ run.pc = "p_stats"
  /\ run' = AfterStats(run, 0)
  /\ UNCHANGED <<store, config, stored, alarmAt, ret, cache, req, consumer>>

\* The index the loop continues with after a move.
IndexAfterMove(r) ==
  IF Len(r.toMove) = r.available THEN r.coldIndex + 1 ELSE r.coldIndex

\* DELETE FROM documents WHERE rowid <= lastDoc.rowid
DeleteUpTo(rows, lastRowid) == {x \in rows : ~(x.rowid <= lastRowid)}

\* The rest of an iteration after the move (and the configure) succeeded: the
\* loop goes on with the documents that remain, or purgeOldData persists the
\* new cold index and deletes the purged rows from the primary.
\* st, cf, sd are the stores, configs and persisted keys as the RPC left them.
AfterMove(st, cf, sd) ==
  LET index == IndexAfterMove(run)
      lastDoc == run.docsToPurge[Len(run.docsToPurge)]
  IN  IF run.remaining # <<>>
        THEN /\ run' = [run EXCEPT !.pc = "p_stats", !.coldIndex = index]
             /\ store' = st
             /\ config' = cf
             /\ stored' = sd
        ELSE /\ run' = [IdleRun EXCEPT !.pc = "rearm"]
             /\ store' = [st EXCEPT ![P] = DeleteUpTo(st[P], lastDoc.rowid)]
             /\ config' = [cf EXCEPT ![P].currentColdStorageIndex = index]
             /\ stored' = IF index # config[P].currentColdStorageIndex
                            THEN [sd EXCEPT ![P].currentColdStorageIndex = index]
                            ELSE sd

\* indexDocuments on the current cold shard is served and returns.  A result
\* with success = false throws; a first write to an empty shard is followed by
\* configureRPC({isReadOnly: true}).
purgeIndexDocuments ==
  /\ run.pc = "p_index"
  /\ ColdExists(run.coldIndex)
  /\ LET cold == Cold(run.coldIndex)
         res == WriteResult(config[cold], store[cold], RowDocs(run.toMove))
         st == [store EXCEPT ![cold] = res.rows]
     IN  /\ InBounds(res.rows)
         /\ cache' = CacheAfterWrite(res, cache)
         /\ UNCHANGED <<ret, req, consumer>>
         /\ IF ~res.success
              THEN /\ run' = IdleRun
                   /\ alarmAt' = AfterThrow
                   /\ UNCHANGED <<store, config, stored>>
            ELSE IF run.statsCount = 0
              THEN /\ run' = [run EXCEPT !.pc = "p_conf"]
                   /\ store' = st
                   /\ UNCHANGED <<config, stored, alarmAt>>
            ELSE /\ AfterMove(st, config, stored)
                 /\ UNCHANGED alarmAt

\* A failed move after which the selected rows are deleted all the same.
purgeIndexDocumentsFailsThenDeletes ==
  /\ run.pc = "p_index"
  /\ store' = [store EXCEPT ![P] =
                 DeleteUpTo(@, run.docsToPurge[Len(run.docsToPurge)].rowid)]
  /\ run' = IdleRun
  /\ alarmAt' = AfterThrow
  /\ UNCHANGED <<config, stored, ret, cache, req, consumer>>

\* indexDocuments on the cold shard throws; the shard may have served the call
\* before the failure.
purgeIndexDocumentsFails ==
  /\ run.pc = "p_index"
  /\ \/ UNCHANGED <<store, cache>>
     \/ /\ ColdExists(run.coldIndex)
        /\ store' = [store EXCEPT ![Cold(run.coldIndex)] =
                       WriteResult(config[Cold(run.coldIndex)], @,
                                   RowDocs(run.toMove)).rows]
        /\ InBounds(store'[Cold(run.coldIndex)])
        /\ cache' = CacheAfterWrite(WriteResult(config[Cold(run.coldIndex)],
                                                store[Cold(run.coldIndex)],
                                                RowDocs(run.toMove)), cache)
  /\ run' = IdleRun
  /\ alarmAt' = AfterThrow
  /\ UNCHANGED <<config, stored, ret, req, consumer>>

\* The configs, persisted configs and alarms after configure(newConfig) ran on s.
Configured(cf, s, newConfig) == [cf EXCEPT ![s] = MergeConfig(config[s], newConfig)]

ConfiguredStored(sd, s, newConfig) ==
  [sd EXCEPT ![s].config = MergeConfig(config[s], newConfig)]

\* configureRPC({isReadOnly: true}) on the cold shard is served and returns.
purgeConfigure ==
  /\ run.pc = "p_conf"
  /\ ColdExists(run.coldIndex)
  /\ LET cold == Cold(run.coldIndex)
     IN  /\ AfterMove(store, Configured(config, cold, [isReadOnly |-> TRUE]),
                      ConfiguredStored(stored, cold, [isReadOnly |-> TRUE]))
         /\ alarmAt' = [alarmAt EXCEPT ![cold] = "set"]
         /\ UNCHANGED <<ret, cache, req, consumer>>

\* configureRPC on the cold shard throws; the shard may have served the call.
purgeConfigureFails ==
  /\ run.pc = "p_conf"
  /\ \/ UNCHANGED <<config, stored>> /\ alarmAt' = AfterThrow
     \/ /\ ColdExists(run.coldIndex)
        /\ config' = Configured(config, Cold(run.coldIndex), [isReadOnly |-> TRUE])
        /\ stored' = ConfiguredStored(stored, Cold(run.coldIndex), [isReadOnly |-> TRUE])
        /\ alarmAt' = [AfterThrow EXCEPT ![Cold(run.coldIndex)] = "set"]
  /\ run' = IdleRun
  /\ UNCHANGED <<store, ret, cache, req, consumer>>

\* setAlarm(Date.now() + interval): alarm() ends with a pending timer.
setAlarm ==
  /\ run.pc = "rearm"
  /\ alarmAt' = [alarmAt EXCEPT ![P] = "set"]
  /\ run' = IdleRun
  /\ UNCHANGED <<store, config, stored, ret, cache, req, consumer>>

\* The object is evicted or crashes and is constructed again: initialize()
\* loads this.config from the persisted "config" key; an alarm() that was
\* running is abandoned and the runtime delivers the alarm again.
restart ==
  /\ config' = [config EXCEPT ![P] = stored[P].config]
  /\ stored' = [stored EXCEPT ![P].db_version = MigratedVersion(@)]
  /\ run' = IdleRun
  /\ alarmAt' = IF run.pc = "idle" THEN alarmAt ELSE AfterThrow
  /\ UNCHANGED <<store, ret, cache, req, consumer>>

\* The object is constructed on a store in which another release recorded
\* schema version `version`: initialize() loads the config and runs its
\* migration transaction on that version.
reopen(version) ==
  /\ version > stored[P].db_version
  /\ config' = [config EXCEPT ![P] = stored[P].config]
  /\ stored' = [stored EXCEPT ![P].db_version = MigratedVersion(version)]
  /\ run' = IdleRun
  /\ alarmAt' = IF run.pc = "idle" THEN alarmAt ELSE AfterThrow
  /\ UNCHANGED <<store, ret, cache, req, consumer>>

(***************************************************************************)
(* The worker's GET /search: the cache lookup, performSearch on the        *)
(* regional replica of the request's colo, and the cache fill.  Each await *)
(* of the handler ends a step; one request is followed at a time.          *)
(***************************************************************************)
MAX_RESULTS_PER_PAGE == 100
WORKER_MEDIUM_COST_LIMIT == 100

\* The reply's `shard` of a response served from the cache.
FromCache == <<"cache", 0>>

\* env.REGION_REPLICA_DO.get(idFromName(colo)): the replica of the colo.
RegionStub == getReplicaStub(RegionReplica)

\* Math.min(parsed, MAX_RESULTS_PER_PAGE), then the limit for the query's cost.
WorkerMaxResults(cost, requested) ==
  LET maxResults == Min2(requested, MAX_RESULTS_PER_PAGE)
  IN  IF cost = "high" THEN Min2(maxResults, HIGH_COST_LIMIT)
      ELSE IF cost = "medium" THEN Min2(maxResults, WORKER_MEDIUM_COST_LIMIT)
      ELSE maxResults

\* fetch GET /search?q=query up to its first await that can wait: a query
\* that processes to nothing or is too common is answered 400; a cache entry
\* is served, cut to maxResults; otherwise performSearch starts.
workerSearch(query, includeCold, requested) ==
  /\ req.pc = "idle"
  /\ query # <<>>
  /\ LET processedQuery == ProcessedQuery(query)
         queryAnalysis == QueryAnalysis(processedQuery)
         maxResults == WorkerMaxResults(queryAnalysis.estimatedCost, requested)
         key == getCacheKey(processedQuery, includeCold)
     IN  IF processedQuery = <<>> \/ queryAnalysis.isTooCommon
           THEN /\ ret' = Reply("fetch", NoStub, FALSE, 0)
                /\ UNCHANGED req
         ELSE IF cache[key].present
           THEN /\ ret' = Reply("fetch", FromCache, TRUE,
                                Len(Slice(cache[key].results, maxResults)))
                /\ UNCHANGED req
         ELSE /\ req' = [IdleReq EXCEPT !.pc = "rpc", !.query = processedQuery,
                                        !.includeCold = includeCold,
                                        !.maxResults = maxResults]
              /\ UNCHANGED ret
  /\ UNCHANGED <<store, config, stored, alarmAt, run, cache, consumer>>

\* performSearch: the regional replica serves searchDocuments; results that
\* are not empty go on to the cache fill, an empty list is answered at once.
workerPerformSearch ==
  /\ req.pc = "rpc"
  /\ LET results == searchDocumentsResult(
                      store, config[RegionStub], RegionStub,
                      [query |-> req.query, includeCold |-> req.includeCold,
                       maxResults |-> req.maxResults],
                      [local |-> "ok", cold |-> [i \in 0..MaxColdIndex |-> "ok"]])
     IN  IF Len(results) > 0
           THEN /\ req' = [req EXCEPT !.pc = "fill", !.results = results]
                /\ UNCHANGED ret
         ELSE /\ req' = IdleReq
              /\ ret' = Reply("fetch", RegionStub, TRUE, 0)
  /\ UNCHANGED <<store, config, stored, alarmAt, run, cache, consumer>>

\* setCachedResults, then the response with the results.
workerCacheFill ==
  /\ req.pc = "fill"
  /\ cache' = [cache EXCEPT ![getCacheKey(req.query, req.includeCold)] =
                 Entry(req.results, req.outdated)]
  /\ req' = IdleReq
  /\ ret' = Reply("fetch", RegionStub, TRUE, Len(req.results))
  /\ UNCHANGED <<store, config, stored, alarmAt, run, consumer>>

\* The entry under key k expires (expirationTtl, or the ttl check of
\* getCachedResults): the next lookup finds nothing.
cacheExpires(k) ==
  /\ cache[k].present
  /\ cache' = [cache EXCEPT ![k] = NoEntry]
  /\ UNCHANGED <<store, config, stored, alarmAt, run, ret, req, consumer>>

(***************************************************************************)
(* The worker's queue handler: it collects the documents of a batch, calls *)
(* indexDocuments on the primary, invalidates the cache and acknowledges   *)
(* the batch, or asks for its redelivery.  A message body is a document or *)
(* an array of documents.                                                  *)
(***************************************************************************)
Body(isArray, items) == [isArray |-> isArray, items |-> items]

\* Array.isArray(message.body) ? message.body : [message.body], appended for
\* every message of the batch.
RECURSIVE AllDocuments(_)
AllDocuments(messages) ==
  IF messages = <<>> THEN <<>>
  ELSE (IF Head(messages).isArray THEN Head(messages).items
        ELSE <<Head(messages).items[1]>>) \o AllDocuments(Tail(messages))

\* Whether `rows` holds a row for every document of the batch.
Committed(rows, documents) ==
  \A i \in DOMAIN documents : \E r \in rows : r.id = documents[i].id

\* batch.ackAll() / batch.retryAll(), the handler's last call.
ackAll(c) == [c EXCEPT !.pc = "done", !.acked = @ + 1]
retryAll(c) == [c EXCEPT !.pc = "done", !.retried = @ + 1]

\* A handler that does not test result.success.
queueAfterIndexIgnoringSuccess(c, result) ==
  IF result.indexed > 0 THEN [c EXCEPT !.pc = "cache", !.result = result]
  ELSE ackAll([c EXCEPT !.result = result])

\* The handler after indexDocuments returned result: a failure is thrown and
\* caught (retryAll); a success goes on to invalidateCache when documents
\* were indexed and to ackAll otherwise.
queueAfterIndex(c, result) ==
  IF ~result.success THEN retryAll([c EXCEPT !.result = result])
  ELSE IF result.indexed > 0 THEN [c EXCEPT !.pc = "cache", !.result = result]
  ELSE ackAll([c EXCEPT !.result = result])

\* queue(batch) up to its await: a batch without documents is acknowledged.
queue(messages) ==
  /\ consumer.pc \in {"idle", "done"}
  /\ consumer' = IF AllDocuments(messages) = <<>>
                   THEN ackAll(IdleConsumer)
                   ELSE [IdleConsumer EXCEPT !.pc = "rpc",
                                             !.documents = AllDocuments(messages)]
  /\ UNCHANGED <<store, config, stored, alarmAt, run, ret, cache, req>>

\* The primary serves the handler's indexDocuments and the result comes back.
queueIndexDocuments ==
  /\ consumer.pc = "rpc"
  /\ ~Gated(P)
  /\ LET res == WriteResult(config[P], store[P], consumer.documents)
     IN  /\ InBounds(res.rows)
         /\ store' = [store EXCEPT ![P] = res.rows]
         /\ cache' = CacheAfterWrite(res, cache)
         /\ req' = ReqAfterIndex(res, req)
         /\ consumer' = queueAfterIndex(consumer,
                           [success |-> res.success, indexed |-> res.n,
                            committed |-> res.success
                                            /\ Committed(res.rows, consumer.documents)])
  /\ UNCHANGED <<config, stored, alarmAt, run, ret>>

\* The indexDocuments RPC throws: the primary did not serve it, or served it
\* and the reply was lost; the handler catches and calls retryAll.
queueIndexDocumentsFails ==
  /\ consumer.pc = "rpc"
  /\ \/ UNCHANGED <<store, cache, req>>
     \/ /\ ~Gated(P)
        /\ LET res == WriteResult(config[P], store[P], consumer.documents)
           IN  /\ InBounds(res.rows)
               /\ store' = [store EXCEPT ![P] = res.rows]
               /\ cache' = CacheAfterWrite(res, cache)
               /\ req' = ReqAfterIndex(res, req)
  /\ consumer' = retryAll(consumer)
  /\ UNCHANGED <<config, stored, alarmAt, run, ret>>

\* invalidateCache (it swallows the errors of the namespace, which then
\* keeps its entries), then ackAll.
queueInvalidateCache ==
  /\ consumer.pc = "cache"
  /\ cache' \in {invalidateCache(cache), cache}
  /\ consumer' = ackAll(consumer)
  /\ UNCHANGED <<store, config, stored, alarmAt, run, ret, req>>

(***************************************************************************)
(* Inputs of the environment.                                              *)
(***************************************************************************)
IdPool == <<"a", "b", "c", "d">>

\* The valid string ids callers use.
ValidIds == {<<IdPool[k]>> : k \in 1..MaxIds}

\* Ids as callers pass them: valid strings and the empty string.
IdInputs == {Str(i) : i \in ValidIds} \cup {Str(<<>>)}

\* Contents as callers pass them; "" fails validation.
ContentInputs == {Str(c) : c \in RawContents} \cup {Str(<<>>)}

DocInputs == {Doc(i, c) : i \in IdInputs, c \in ContentInputs}

Batches == UNION {[1..n -> DocInputs] : n \in 0..MaxBatch}

\* Documents and batches that pass validation.
ValidDocInputs == {d \in DocInputs : ValidDoc(d, "string")}

ValidBatches == UNION {[1..n -> ValidDocInputs] : n \in 1..MaxBatch}

\* Queries: a word of a stored document, a stop word, a common term, nothing.
QueryInputs == {<<"r","u","s","t">>, <<"t","h","e">>, <<"c","a","t">>, <<>>}

(***************************************************************************)
(* Spec: the RPC surface of one shard (the same class serves the primary,  *)
(* the replicas and the cold shards), called in any order.                 *)
(***************************************************************************)
ShardConfigInputs == {[isReadOnly |-> TRUE], [isReadOnly |-> FALSE]}

Index == \E b \in Batches : indexDocuments(P, b)

Sync == \E b \in Batches : syncDocuments(P, b)

Search == \E q \in QueryInputs : searchDocuments(P, q)

Stats == getStats(P)

Configure == \E c \in ShardConfigInputs : configure(P, c)

Next == Index \/ Sync \/ Search \/ Stats \/ Configure

Spec == Init /\ [][Next]_vars

(***************************************************************************)
(* SpecRepl: the primary, its replicas and the replication half of the     *)
(* alarm.                                                                  *)
(***************************************************************************)
ReplicaLists ==
  {<<RegionReplica>>, <<RegionReplica, LocalReplica>>, <<BadReplica>>}

\* The queue consumer indexes one document on the primary.
IndexDocument == \E d \in ValidDocInputs : indexDocuments(P, <<d>>)

ConfigureReplicas == \E l \in ReplicaLists : configure(P, [replicas |-> l])

SyncToReplica == \E k \in 1..2 : syncToReplica(k)

SyncToReplicaFails == \E k \in 1..2 : syncToReplicaFails(k)

NextRepl ==
  \/ IndexDocument
  \/ ConfigureReplicas
  \/ alarm
  \/ syncToReplicas
  \/ SyncToReplica
  \/ SyncToReplicaFails
  \/ syncComplete
  \/ syncRejected
  \/ purgeOldData
  \/ setAlarm

SpecRepl == Init /\ [][NextRepl]_vars

(***************************************************************************)
(* SpecPurge: the primary, the cold shards and the lifecycle half of the   *)
(* alarm, with restarts of the primary.                                    *)
(***************************************************************************)
PurgeConfigInputs ==
  {[purgeThresholdDocs |-> 2, purgeTargetDocs |-> 1, coldStorageThresholdDocs |-> 1]}

\* The batches the queue consumer delivers here: one or two documents with
\* different ids.
PurgeDocInputs == {Doc(Str(i), Str(ContentRust)) : i \in ValidIds}

PurgeBatches ==
  {b \in UNION {[1..n -> PurgeDocInputs] : n \in 1..MaxBatch} :
     \A j, k \in DOMAIN b : j # k => b[j].id # b[k].id}

\* The queue consumer indexes a batch of valid documents on the primary.
IndexBatch == \E b \in PurgeBatches : indexDocuments(P, b)

ConfigurePurge == \E c \in PurgeConfigInputs : configure(P, c)

NextPurge ==
  \/ IndexBatch
  \/ ConfigurePurge
  \/ alarm
  \/ purgeOldData
  \/ purgeGetStats
  \/ purgeGetStatsFails
  \/ purgeIndexDocuments
  \/ purgeIndexDocumentsFails
  \/ purgeConfigure
  \/ purgeConfigureFails
  \/ setAlarm
  \/ restart

SpecPurge == Init /\ [][NextPurge]_vars

(***************************************************************************)
(* SpecReplFair: SpecRepl with every replica reachable (each descriptor    *)
(* resolves, no RPC throws) and a scheduler that keeps going: a pending or *)
(* failed alarm is delivered, and a step of a running alarm() that can be  *)
(* taken is taken.  The runtime gives up on an alarm that keeps failing;   *)
(* here it is delivered for ever.                                          *)
(***************************************************************************)
ReachableReplicaLists == {<<RegionReplica>>, <<RegionReplica, LocalReplica>>}

ConfigureReachable == \E l \in ReachableReplicaLists : configure(P, [replicas |-> l])

NextReplFair ==
  \/ IndexDocument
  \/ ConfigureReachable
  \/ alarm
  \/ syncToReplicas
  \/ SyncToReplica
  \/ syncComplete
  \/ syncRejected
  \/ purgeOldData
  \/ setAlarm

SpecReplFair ==
  /\ Init
  /\ [][NextReplFair]_vars
  /\ WF_vars(alarm)
  /\ WF_vars(syncToReplicas)
  /\ WF_vars(SyncToReplica)
  /\ WF_vars(syncComplete)
  /\ WF_vars(syncRejected)
  /\ WF_vars(purgeOldData)
  /\ WF_vars(setAlarm)

(***************************************************************************)
(* SpecTick: whole ticks of the primary: replication to one replica, then  *)
(* the purge to cold shards, with Index calls in between.                  *)
(***************************************************************************)
TickConfigInputs ==
  {[replicas |-> <<RegionReplica>>,
    purgeThresholdDocs |-> 2, purgeTargetDocs |-> 1, coldStorageThresholdDocs |-> 1],
   [replicas |-> <<RegionReplica>>,
    purgeThresholdDocs |-> 2, purgeTargetDocs |-> 0, coldStorageThresholdDocs |-> 1]}

ConfigureTick == \E c \in TickConfigInputs : configure(P, c)

NextTick ==
  \/ IndexBatch
  \/ ConfigureTick
  \/ alarm
  \/ syncToReplicas
  \/ SyncToReplica
  \/ SyncToReplicaFails
  \/ syncComplete
  \/ syncRejected
  \/ purgeOldData
  \/ purgeGetStats
  \/ purgeIndexDocuments
  \/ purgeConfigure
  \/ setAlarm

SpecTick == Init /\ [][NextTick]_vars

(***************************************************************************)
(* SpecCold: purges into cold shards that take two documents each, so that *)
(* a purge leaves a shard partly filled; configureRPC on a cold shard may  *)
(* fail.                                                                   *)
(***************************************************************************)
ColdConfigInputs ==
  {[purgeThresholdDocs |-> 2, purgeTargetDocs |-> 1, coldStorageThresholdDocs |-> 2]}

ConfigureCold == \E c \in ColdConfigInputs : configure(P, c)

NextCold ==
  \/ IndexBatch
  \/ ConfigureCold
  \/ alarm
  \/ purgeOldData
  \/ purgeGetStats
  \/ purgeIndexDocuments
  \/ purgeConfigure
  \/ purgeConfigureFails
  \/ setAlarm

SpecCold == Init /\ [][NextCold]_vars

(***************************************************************************)
(* SpecColdFair: SpecCold with every cold shard answering its RPCs and a   *)
(* scheduler that keeps going: a pending or failed alarm is delivered, and *)
(* a step of a running alarm() that can be taken is taken.                 *)
(***************************************************************************)
NextColdFair ==
  \/ IndexBatch
  \/ ConfigureCold
  \/ alarm
  \/ purgeOldData
  \/ purgeGetStats
  \/ purgeIndexDocuments
  \/ purgeConfigure
  \/ setAlarm

SpecColdFair ==
  /\ Init
  /\ [][NextColdFair]_vars
  /\ WF_vars(alarm)
  /\ WF_vars(purgeOldData)
  /\ WF_vars(purgeGetStats)
  /\ WF_vars(purgeIndexDocuments)
  /\ WF_vars(purgeConfigure)
  /\ WF_vars(setAlarm)

(***************************************************************************)
(* SpecSearch: purges fill the cold shards while searches, with and        *)
(* without includeCold, are served by the primary.                         *)
(***************************************************************************)
SearchQueryInputs == {<<"R","u","s","t">>, <<"t","h","e">>, <<>>}

MaxResultsInputs == {1, MaxIds}

SearchParamInputs ==
  [query : SearchQueryInputs, includeCold : BOOLEAN, maxResults : MaxResultsInputs]

SearchOutcomes ==
  [local : {"ok", "fallback", "failed"},
   cold : [0..MaxColdIndex -> {"ok", "throws"}]]

SearchRequest ==
  \E params \in SearchParamInputs : \E outcomes \in SearchOutcomes :
    searchDocumentsRequest(P, params, outcomes)

NextSearch ==
  \/ IndexBatch
  \/ ConfigurePurge
  \/ alarm
  \/ purgeOldData
  \/ purgeGetStats
  \/ purgeIndexDocuments
  \/ purgeConfigure
  \/ setAlarm
  \/ SearchRequest

SpecSearch == Init /\ [][NextSearch]_vars

(***************************************************************************)
(* SpecCache: the queue consumer indexes on the primary, the tick          *)
(* replicates to the regional replica, and the worker answers /search      *)
(* from the cache or from that replica.                                    *)
(***************************************************************************)
\* Single documents as the queue delivers them: content "Rust!" or "".
CacheDocInputs == {Doc(i, c) : i \in IdInputs, c \in {Str(ContentRust), Str(<<>>)}}

IndexOne == \E d \in CacheDocInputs : indexDocuments(P, <<d>>)

ConfigureRegion == configure(P, [replicas |-> <<RegionReplica>>])

WorkerQueryInputs == {<<"R","u","s","t">>, <<"t","h","e">>}

WorkerSearch ==
  \E q \in WorkerQueryInputs : \E m \in MaxResultsInputs : workerSearch(q, FALSE, m)

CacheExpires == \E k \in CacheKeys : cacheExpires(k)

NextCache ==
  \/ IndexOne
  \/ ConfigureRegion
  \/ alarm
  \/ syncToReplicas
  \/ SyncToReplica
  \/ syncComplete
  \/ purgeOldData
  \/ setAlarm
  \/ WorkerSearch
  \/ workerPerformSearch
  \/ workerCacheFill
  \/ CacheExpires

SpecCache == Init /\ [][NextCache]_vars

(***************************************************************************)
(* SpecPlan: one shard indexed and searched with queries of every cost.    *)
(***************************************************************************)
PlanQueryInputs == PlanQueries \cup {<<"R","u","s","t">>, <<"t","h","e">>}

PlanSearch == \E q \in PlanQueryInputs : searchDocuments(P, q)

NextPlan == IndexDocument \/ Configure \/ PlanSearch \/ Stats

SpecPlan == Init /\ [][NextPlan]_vars

(***************************************************************************)
(* SpecReindex: the primary replicates to one regional replica documents   *)
(* whose content is shorter and longer than the cut.                       *)
(***************************************************************************)
ReindexDocInputs == {Doc(Str(i), Str(c)) : i \in ValidIds, c \in {ContentRust, ContentLong}}

IndexReindexDoc == \E d \in ReindexDocInputs : indexDocuments(P, <<d>>)

NextReindex ==
  \/ IndexReindexDoc
  \/ ConfigureRegion
  \/ alarm
  \/ syncToReplicas
  \/ SyncToReplica
  \/ syncComplete
  \/ purgeOldData
  \/ setAlarm

SpecReindex == Init /\ [][NextReindex]_vars

(***************************************************************************)
(* SpecConfigure: configure calls that set disjoint keys reach the primary *)
(* in any order, between Index calls and the steps of the alarm's purge.   *)
(***************************************************************************)
DisjointConfigInputs ==
  {[purgeThresholdDocs |-> 2], [purgeTargetDocs |-> 1], [coldStorageThresholdDocs |-> 1]}

ConfigureDisjoint == \E c \in DisjointConfigInputs : configure(P, c)

NextConfigure ==
  \/ IndexBatch
  \/ ConfigureDisjoint
  \/ alarm
  \/ purgeOldData
  \/ purgeGetStats
  \/ purgeIndexDocuments
  \/ purgeConfigure
  \/ setAlarm

SpecConfigure == Init /\ [][NextConfigure]_vars

(***************************************************************************)
(* SpecOpen: one shard that is indexed and searched, restarted, and        *)
(* reopened on a store of a higher schema version.                         *)
(***************************************************************************)
Reopen == \E v \in (DB_VERSION + 1)..MaxDbVersion : reopen(v)

NextOpen == IndexDocument \/ Search \/ Stats \/ restart \/ Reopen

SpecOpen == Init /\ [][NextOpen]_vars

(***************************************************************************)
(* SpecQueue: queue batches reach the worker while the primary is          *)
(* configured read-write or read-only.                                     *)
(***************************************************************************)
\* Bodies: one valid document, one document with an empty id, an array of
\* two documents, an empty array.
BodyInputs ==
  {Body(FALSE, <<Doc(Str(<<"a">>), Str(ContentRust))>>),
   Body(FALSE, <<Doc(Str(<<>>), Str(ContentRust))>>),
   Body(TRUE, <<Doc(Str(<<"a">>), Str(ContentRust)), Doc(Str(<<"b">>), Str(ContentRust))>>),
   Body(TRUE, <<>>)}

MessageBatches == UNION {[1..n -> BodyInputs] : n \in 0..MaxBatch}

Queue == \E messages \in MessageBatches : queue(messages)

NextQueue ==
  \/ Queue
  \/ queueIndexDocuments
  \/ queueIndexDocumentsFails
  \/ queueInvalidateCache
  \/ Configure
  \/ Search

SpecQueue == Init /\ [][NextQueue]_vars

(***************************************************************************)
(* SpecWorkerCold: the primary replicates to the regional replica and      *)
(* purges to cold shards, and the worker answers /search?includeCold=true  *)
(* from the regional replica.                                              *)
(***************************************************************************)
ConfigureRegionPurge ==
  configure(P, [replicas |-> <<RegionReplica>>, purgeThresholdDocs |-> 2,
                purgeTargetDocs |-> 1, coldStorageThresholdDocs |-> 1])

IndexValid == \E d \in PurgeDocInputs : indexDocuments(P, <<d>>)

WorkerSearchCold ==
  \E m \in MaxResultsInputs : workerSearch(<<"R","u","s","t">>, TRUE, m)

NextWorkerCold ==
  \/ IndexValid
  \/ ConfigureRegionPurge
  \/ alarm
  \/ syncToReplicas
  \/ SyncToReplica
  \/ syncComplete
  \/ purgeOldData
  \/ purgeGetStats
  \/ purgeIndexDocuments
  \/ purgeConfigure
  \/ setAlarm
  \/ WorkerSearchCold
  \/ workerPerformSearch
  \/ workerCacheFill

SpecWorkerCold == Init /\ [][NextWorkerCold]_vars

(***************************************************************************)
(* SpecIdType: one shard whose idType is set by configure, indexed with    *)
(* string ids and with integer ids.                                        *)
(***************************************************************************)
IdTypeInputs == {"string", "integer"}

\* Documents with a string id or an integer id (the rowid, under "integer").
TypedDocInputs ==
  {Doc(Str(i), Str(ContentRust)) : i \in ValidIds}
    \cup {Doc(Num(n), Str(ContentRust)) : n \in 1..MaxIds}

IndexTyped == \E d \in TypedDocInputs : indexDocuments(P, <<d>>)

ConfigureIdType == \E t \in IdTypeInputs : configure(P, [idType |-> t])

NextIdType == IndexTyped \/ ConfigureIdType \/ Search \/ Stats

SpecIdType == Init /\ [][NextIdType]_vars

(***************************************************************************)
(* SpecAbsorb: the primary is configured for purging and also switched to  *)
(* read-only and back by configure, with a scheduler that keeps going: a   *)
(* pending or failed alarm is delivered, and a step of a running alarm()   *)
(* that can be taken is taken.                                             *)
(***************************************************************************)
NextAbsorb ==
  \/ IndexBatch
  \/ ConfigurePurge
  \/ Configure
  \/ alarm
  \/ purgeOldData
  \/ purgeGetStats
  \/ purgeIndexDocuments
  \/ purgeConfigure
  \/ setAlarm

SpecAbsorb ==
  /\ Init
  /\ [][NextAbsorb]_vars
  /\ WF_vars(alarm)
  /\ WF_vars(purgeOldData)
  /\ WF_vars(purgeGetStats)
  /\ WF_vars(purgeIndexDocuments)
  /\ WF_vars(purgeConfigure)
  /\ WF_vars(setAlarm)

(***************************************************************************)
(* Properties.                                                             *)
(***************************************************************************)
\* Shard s holds a row with this id and this stored content.
HasDoc(s, id, content) == \E x \in store[s] : x.id = id /\ x.content = content

\* The rows of shard s with this id.
RowsOf(rows, id) == {x \in rows : x.id = id}

\* The positions of batch b that carry this id.
Carries(b, id) == {j \in DOMAIN b : b[j].id = id}

\* C1 (under SpecPurge): no step loses a document: a row's id leaves the
\* primary only when a cold shard holds a row with that id and content.  This
\* covers a purge that fails part-way, a restart between the cold write and
\* the delete, and Index calls served while purgeOldData awaits a cold shard.
C1_PurgedRowsAreInColdStorage ==
  [][\A r \in store[P] :
       RowsOf(store'[P], r.id) = {} =>
         \E c \in ColdShards : \E x \in store'[c] : x.id = r.id /\ x.content = r.content]_vars

\* The case of C1: a purge has deleted rows from the primary and a cold shard
\* holds documents.
C1_Witness ==
  /\ run.pc = "rearm"
  /\ \E c \in ColdShards : store[c] # {}
  /\ Cardinality(store[P]) = 1

\* C2 (under Spec): while a shard is read-only, every indexDocuments and
\* syncDocuments call returns success = false and leaves the store as it was;
\* getStats returns the row count and searchDocuments the local hits.
C2_ReadOnlyRejectsWrites ==
  [][config[P].isReadOnly =>
       /\ store' = store
       /\ ret'.op \in {"index", "sync"} => ~ret'.success /\ ret'.n = 0
       /\ ret'.op = "stats" => ret'.success /\ ret'.n = Cardinality(store[P])
       /\ ret'.op = "search" =>
            /\ ret'.success
            /\ \E q \in QueryInputs : searchDocuments(P, q)]_vars

\* The case of C2: a read-only shard that holds documents has rejected a write.
C2_Witness ==
  /\ config[P].isReadOnly
  /\ store[P] # {}
  /\ ret.op \in {"index", "sync"}
  /\ ~ret.success

\* C3 (under Spec): a read-only shard stays read-only: no step takes
\* isReadOnly from true back to false.
C3_ReadOnlyIsPermanent == [][config[P].isReadOnly => config'[P].isReadOnly]_vars

\* C4 (under Spec): no two rows of a shard's store share a document id.
C4_IdAtMostOnce == \A r1, r2 \in store[P] : r1.id = r2.id => r1 = r2

\* C5 (under Spec): calls on one shard are served one at a time, each as one
\* step.  Whatever calls came before, an accepted indexDocuments call that
\* carries an id once leaves exactly one row for that id, and the row holds
\* the filtered content of that call.
C5_UpsertLeavesOneRow ==
  [][(ret'.op = "index" /\ ret'.success) =>
       \A b \in ValidBatches :
         indexDocuments(P, b) =>
           \A j \in DOMAIN b :
             Carries(b, b[j].id) = {j} =>
               RowsOf(store'[P], b[j].id) =
                 {Row(x.rowid, b[j].id, TruncatedContent(b[j].content.str)) :
                    x \in RowsOf(store'[P], b[j].id)}
               /\ Cardinality(RowsOf(store'[P], b[j].id)) = 1]_vars

\* The case of C5: an id that had a row was indexed again with other content,
\* beside a second id.
C5_Witness ==
  /\ ret.op = "index" /\ ret.success /\ ret.n = 1
  /\ Cardinality(store[P]) = 2
  /\ \E r \in store[P] : r.rowid = MaxRowid /\ r.content = TruncatedContent(ContentTheCat)
  /\ C4_IdAtMostOnce

\* The batches with a document that fails validation.
InvalidBatches == {b \in Batches : \E j \in DOMAIN b : ~ValidDoc(b[j], "string")}

\* C6 (under Spec): in every state a shard reaches, a batch with a document
\* that fails validation is rejected as a whole by indexDocuments and
\* syncDocuments, with its field errors, and the store keeps the rows it had:
\* no document of the batch, not even a valid one, is written.
C6_InvalidBatchIsRejected ==
  \A b \in InvalidBatches :
    /\ ~WriteResult(config[P], store[P], b).success
    /\ WriteResult(config[P], store[P], b).rows = store[P]
    /\ validateDocuments(b, IdTypeOf(config[P])).errors # <<>>

\* The case of C6: a shard that accepts writes and holds documents has
\* rejected a batch.
C6_Witness ==
  /\ ~config[P].isReadOnly
  /\ store[P] # {}
  /\ ret.op \in {"index", "sync"}
  /\ ~ret.success

\* Replica `replicaInfo` of the replica list has accepted row r of the
\* primary: its descriptor resolves to a shard and that shard stores r's
\* document.
Accepted(replicaInfo, r) ==
  /\ getReplicaStub(replicaInfo) # NoStub
  /\ HasDoc(getReplicaStub(replicaInfo), r.id, StoredContent(r.content))

\* Every replica of the current replica list has accepted this document.
OnEveryReplica(id, content) ==
  \A k \in DOMAIN config[P].replicas :
    /\ getReplicaStub(config[P].replicas[k]) # NoStub
    /\ HasDoc(getReplicaStub(config[P].replicas[k]), id, StoredContent(content))

\* C7 (under SpecReplFair): with a replica configured and every replica
\* reachable, a document the primary stores is on every configured replica
\* after finitely many ticks, unless the primary has replaced it by then.
C7_EveryDocumentReachesReplicas ==
  \A i \in ValidIds : \A c \in RawContents :
    (Len(config[P].replicas) > 0 /\ HasDoc(P, Str(i), StoredContent(c)))
      ~> (~HasDoc(P, Str(i), StoredContent(c))
            \/ OnEveryReplica(Str(i), StoredContent(c)))

\* The case of C7: the primary stores a document whose filtered content is
\* empty, its replicas are configured, and a tick has tried to replicate.
C7_Witness ==
  /\ Len(config[P].replicas) > 0
  /\ \E r \in store[P] : r.content = <<>>
  /\ alarmAt[P] = "failed"

\* C8 (under SpecRepl): every row of the primary at or below the persisted
\* cursor lastSyncRowId has been accepted by every replica of the current
\* replica list.
C8_CursorCoversEveryReplica ==
  \A r \in store[P] :
    r.rowid <= stored[P].lastSyncRowId =>
      \A k \in DOMAIN config[P].replicas : Accepted(config[P].replicas[k], r)

\* C9 (under SpecTick): the persisted cursor lastSyncRowId never decreases,
\* whatever ticks, Index calls, purges and Configure calls take place.
C9_CursorNeverDecreases ==
  [][stored'[P].lastSyncRowId >= stored[P].lastSyncRowId]_vars

\* The case of C9: the cursor has advanced past 1, a purge has moved rows to
\* a cold shard, and every row the primary holds now lies below the cursor.
C9_Witness ==
  /\ stored[P].lastSyncRowId > 1
  /\ \E c \in ColdShards : store[c] # {}
  /\ \E r \in store[P] : r.rowid < stored[P].lastSyncRowId
  /\ \A r \in store[P] : r.rowid < stored[P].lastSyncRowId

\* C10 (under SpecRepl): when a replica has failed during a replication step,
\* the step ends with the cursor persisted at the largest scanned rowid.
C10_CursorAdvancesOnFailure ==
  [][(/\ run.pc = "sync_wait"
      /\ \E k \in DOMAIN run.out : run.out[k].state = "failed"
      /\ run'.pc # "sync_wait") =>
       stored'[P].lastSyncRowId = MaxRowId(run.newDocs)]_vars

\* The case of C10: a replication step ended after a replica failed.
C10_Witness ==
  /\ alarmAt[P] = "failed"
  /\ run.pc = "idle"
  /\ store[P] # {}
  /\ stored[P].lastSyncRowId = 0
  /\ \E k \in DOMAIN config[P].replicas :
       getReplicaStub(config[P].replicas[k]) # NoStub
       /\ store[getReplicaStub(config[P].replicas[k])] # {}

\* C11 (under SpecRepl): every alarm() that ran on the primary (which is not
\* read-only) ends with the timer set again, also when its replication step
\* failed.
C11_AlarmAlwaysRearms ==
  [][(run.pc # "idle" /\ run'.pc = "idle") => alarmAt'[P] = "set"]_vars

\* The case of C11: an alarm() ended in its replication step, with documents
\* on the primary that no replica had accepted, and no timer is set.
C11_Witness ==
  /\ run.pc = "idle"
  /\ alarmAt[P] = "failed"
  /\ store[P] # {}
  /\ \A k \in Replicas : store[k] = {}

\* C12 (under Spec): a row a step inserts gets a rowid greater than every rowid
\* the shard's table held before the step; so no rowid is handed out twice.
C12_RowidsAreNeverReused ==
  [][\A r \in store'[P] :
       r \notin store[P] => \A x \in store[P] : r.rowid > x.rowid]_vars

\* C13 (under SpecPurge): a purge whose cold-shard write fails (the call throws
\* or returns success = false) ends there and leaves the primary's rows as they
\* are; rows leave the primary only in the step that completes a purge, after
\* every cold-shard write of it succeeded.
C13_FailedMoveDeletesNothing ==
  [][/\ (run.pc = "p_index" /\ run'.pc = "idle") => store'[P] = store[P]
     /\ (\E r \in store[P] : RowsOf(store'[P], r.id) = {}) =>
          (run.pc \in {"p_index", "p_conf"} /\ run'.pc = "rearm")]_vars

\* The case of C13: a purge ended by a failure after the cold shard had stored
\* the moved document; the primary still holds all its rows.
C13_Witness ==
  /\ run.pc = "idle"
  /\ alarmAt[P] = "failed"
  /\ config[P].purgeThresholdDocs = 2
  /\ Cardinality(store[P]) = 2
  /\ store[Cold(0)] # {}
  /\ ~config[Cold(0)].isReadOnly

\* C18 (under SpecPurge): no cold shard holds more documents than the
\* configured coldStorageThresholdDocs, also after a getStats call failed and
\* the purge took the shard to be empty.
C18_ColdShardWithinThreshold ==
  \A c \in ColdShards : Cardinality(store[c]) <= ColdStorageThreshold(config[P])

\* The case of C18: a cold shard that holds documents and was never marked
\* read-only is written to by a purge whose getStats call failed.
C18_Witness ==
  /\ run.pc = "p_index"
  /\ run.statsCount = 0
  /\ ColdExists(run.coldIndex)
  /\ store[Cold(run.coldIndex)] # {}
  /\ ~config[Cold(run.coldIndex)].isReadOnly

\* C14 (under SpecColdFair): with every cold shard answering, a primary whose
\* document count has reached purgeThresholdDocs is below the threshold again
\* after finitely many ticks.
C14_PurgeEventuallyCompletes ==
  (config[P].purgeThresholdDocs > 0
     /\ Cardinality(store[P]) >= config[P].purgeThresholdDocs)
    ~> (Cardinality(store[P]) < config[P].purgeThresholdDocs)

\* The case of C14: the primary is at its threshold while the cold shard the
\* purge writes to is read-only and has room left.
C14_Witness ==
  /\ config[P].purgeThresholdDocs > 0
  /\ Cardinality(store[P]) >= config[P].purgeThresholdDocs
  /\ config[P].currentColdStorageIndex = 0
  /\ config[Cold(0)].isReadOnly
  /\ Cardinality(store[Cold(0)]) < ColdStorageThreshold(config[P])

\* A step that completes a purge: the loop over cold shards ended and the
\* purged rows are deleted from the primary.
PurgeCompletes == run.pc \in {"p_index", "p_conf"} /\ run'.pc = "rearm"

\* C15 (under SpecCold): when a purge completes, every document it removed
\* from the primary is stored in a cold shard with an index below the new
\* currentColdStorageIndex, the shards a search with includeCold consults.
C15_PurgedDocsAreSearchable ==
  [][PurgeCompletes =>
       \A r \in store[P] :
         RowsOf(store'[P], r.id) = {} =>
           \E i \in 0..MaxColdIndex :
             /\ i < config'[P].currentColdStorageIndex
             /\ \E x \in store'[Cold(i)] :
                  x.id = r.id /\ x.content = StoredContent(r.content)]_vars

\* C16 (under SpecCold): when a purge completes, the cold shard it wrote to
\* last is read-only.
C16_ColdShardsAreReadOnly ==
  [][(PurgeCompletes /\ ColdExists(run.coldIndex)) =>
       config'[Cold(run.coldIndex)].isReadOnly]_vars

\* C17 (under SpecCold): cold shards fill in index order: when cold shard
\* i + 1 holds a document, cold shard i holds coldStorageThresholdDocs
\* documents.
C17_ColdShardsFillInOrder ==
  \A i \in 0..(MaxColdIndex - 1) :
    store[Cold(i + 1)] # {} =>
      Cardinality(store[Cold(i)]) = ColdStorageThreshold(config[P])

\* C19 (under SpecSearch): searchDocuments returns a list for every request
\* and every failure inside it (the empty list when the local query fails
\* and cold storage is not asked); a cold shard whose call throws counts as a
\* shard without hits: the list is the one the same request gets when that
\* shard holds nothing, so the local hits and the hits of the other cold
\* shards are returned all the same.
C19_ColdFailureIsAnEmptyResult ==
  \A params \in SearchParamInputs : \A outcomes \in SearchOutcomes :
    LET results == searchDocumentsResult(store, config[P], P, params, outcomes)
    IN  /\ (outcomes.local = "failed" /\ ~params.includeCold) => results = <<>>
        /\ \A i \in 0..MaxColdIndex :
             outcomes.cold[i] = "throws" =>
               results = searchDocumentsResult([store EXCEPT ![Cold(i)] = {}], config[P], P, params,
                                               [outcomes EXCEPT !.cold[i] = "ok"])

\* The case of C19: the primary and both cold shards hold documents, the cold
\* index covers both shards, and a search was answered with two hits.
C19_Witness ==
  /\ config[P].currentColdStorageIndex = 2
  /\ store[P] # {}
  /\ store[Cold(0)] # {}
  /\ store[Cold(1)] # {}
  /\ ret.op = "search"
  /\ ret.n = 2

\* C20 (under SpecSearch): searchDocuments returns at most maxResults hits,
\* for every request and on every path: the local query, the merge with the
\* cold hits, and the quoted-phrase fallback.
C20_AtMostMaxResults ==
  \A params \in SearchParamInputs : \A outcomes \in SearchOutcomes :
    Len(searchDocumentsResult(store, config[P], P, params, outcomes)) <= params.maxResults

\* The case of C20: a search of the primary returned more than one hit.
C20_Witness ==
  /\ ret.op = "search"
  /\ ret.n > 1
  /\ Cardinality(store[P]) > 1

\* C21 (under SpecSearch): with includeCold on a primary that has n cold
\* shards, the list searchDocuments returns is sorted by rank ascending and
\* is the first maxResults entries of the rank-sorted union of the local hits
\* and of the hits every cold shard returns for ceil(maxResults / n); so no
\* cold hit is left out for a local hit of worse rank.
C21_MergedByRank ==
  \A params \in SearchParamInputs : \A rk \in RankInputs(store) :
    (params.includeCold /\ params.query # <<>> /\ ~config[P].isReadOnly
       /\ config[P].currentColdStorageIndex # 0) =>
      LET n == config[P].currentColdStorageIndex
          results == searchDocumentsRanked(store, config[P], P, params, rk)
          all == searchRanked(store, P, params.query, params.maxResults, rk)
                   \o ColdHitsRanked(store, 0, n, params.query,
                                     ResultsPerDO(params.maxResults, n), rk)
      IN  /\ \A i, j \in DOMAIN results : i < j => results[i].rank <= results[j].rank
          /\ results = Slice(SortByRank(all), params.maxResults)

\* The case of C21: the primary and a cold shard both hold a document, the
\* cold index is past that shard, and a search was answered.
C21_Witness ==
  /\ config[P].currentColdStorageIndex > 0
  /\ ~config[P].isReadOnly
  /\ store[P] # {}
  /\ store[Cold(0)] # {}
  /\ ret.op = "search"
  /\ ret.n >= 1

\* C22 (under SpecSearch): a searchDocuments call the primary's router sends
\* goes to a cold shard, never to the primary, and the shard that serves it
\* makes no call to another shard, whatever the outcome of its own query: a
\* search has at most one level of cross-shard calls.
C22_ColdShardsDoNotFanOut ==
  \A params \in SearchParamInputs : \A outcomes \in SearchOutcomes :
    \A call \in SearchCalls(store, config, P, params, outcomes.local) :
      /\ call.to \in ColdShards
      /\ call.to # P
      /\ \A outcome \in {"ok", "fallback", "failed"} :
           SearchCalls(store, config, call.to, call.params, outcome) = {}

\* The case of C22: the router has cold shards to ask and room for their
\* hits, so a search with includeCold sends calls.
C22_Witness ==
  /\ config[P].currentColdStorageIndex = 2
  /\ store[Cold(0)] # {}
  /\ store[Cold(1)] # {}
  /\ ret.op = "search"
  /\ \E params \in SearchParamInputs :
       Cardinality(SearchCalls(store, config, P, params, "ok")) = 2

\* C24 (under Spec): configure arms the timer only when the configuration
\* it leaves is not read-only: a configure that leaves the shard read-only,
\* on a shard with no pending timer, ends with no pending timer.
C24_ReadOnlyConfigureArmsNoTimer ==
  [][(Configure /\ config'[P].isReadOnly /\ alarmAt[P] = "none")
       => alarmAt'[P] = "none"]_vars

\* The case of C24: a configure has left the shard read-only.
C24_Witness ==
  /\ ret.op = "configure"
  /\ config[P].isReadOnly
  /\ alarmAt[P] = "set"

\* Every row of `rows` is returned by every search whose processed query
\* matches the row's filtered content, the row cap allowing.
AllFound(rows) ==
  \A r \in rows : \A q \in QueryInputs :
    (ProcessedQuery(q) # <<>> /\ Matches(r, ProcessedQuery(q))
       /\ Cardinality(rows) <= DEFAULT_MAX_RESULTS) =>
      r \in Range(search(rows, q, DEFAULT_MAX_RESULTS))

Cleared(c) == \A k \in DOMAIN c : ~c[k].present

\* C26 (under SpecCache): an Index on the primary or a Sync on a replica that
\* stores documents has invalidated the cache when it returns: the step that
\* writes the store leaves no cache entry; a call that is rejected (read-only
\* or invalid documents) leaves the cache as it was.
C26_CommitInvalidatesCache ==
  [][/\ \A d \in CacheDocInputs :
          indexDocuments(P, <<d>>) =>
            IF ret'.success /\ ret'.n > 0 THEN Cleared(cache') ELSE cache' = cache
     /\ \A k \in 1..2 :
          syncToReplica(k) =>
            IF run'.out[k].state = "ok" THEN Cleared(cache') ELSE cache' = cache
     /\ \A d \in CacheDocInputs :
          CacheAfterWrite(WriteResult([config[P] EXCEPT !.isReadOnly = TRUE],
                                      store[P], <<d>>), cache) = cache]_vars

\* The case of C26: an Index has stored a document while the worker held
\* results on their way into the cache, and the cache is empty.
C26_Witness ==
  /\ ret.op = "index"
  /\ ret.success
  /\ ret.n > 0
  /\ req.pc = "fill"
  /\ req.outdated
  /\ Cleared(cache)

\* C27 (under SpecCache): once an Index has stored its documents and
\* invalidated the cache, no /search is answered from a cache entry whose
\* results were computed before that Index, whatever the interleaving of a
\* /search in flight with the Index and the replication tick.
C27_NoStaleCacheHit ==
  [][\A q \in WorkerQueryInputs : \A m \in MaxResultsInputs :
       (/\ ProcessedQuery(q) # <<>>
        /\ cache[getCacheKey(ProcessedQuery(q), FALSE)].present
        /\ workerSearch(q, FALSE, m))
         => ~cache[getCacheKey(ProcessedQuery(q), FALSE)].outdated]_vars

\* The case of C27: a /search was answered from the cache.
C27_Witness ==
  /\ ret.op = "fetch"
  /\ ret.shard = FromCache
  /\ ret.n >= 1

\* The primary after an alarm fired on it while read-only: read-only, no
\* alarm() running and no timer pending.  (configure always leaves a timer
\* pending, so the state is reached by that firing only.)
Absorbed == config[P].isReadOnly /\ alarmAt[P] = "none" /\ run.pc = "idle"

\* C23 (under SpecAbsorb): an alarm that fires on a read-only shard ends at
\* once, without replication, purge or a new timer, and from then on no alarm
\* changes the shard's store or persisted state: the persisted cold index
\* stays what it was and no row leaves the table (only a purge, which runs
\* in alarm(), changes the one or removes rows).
C23_ReadOnlyAlarmIsAbsorbing ==
  /\ [][(alarm /\ config[P].isReadOnly)
          => (run'.pc = "idle" /\ alarmAt'[P] = "none" /\ UNCHANGED <<store, stored>>)]_vars
  /\ \A n \in 0..(MaxColdIndex + 1) :
       []((Absorbed /\ stored[P].currentColdStorageIndex = n)
            => [](stored[P].currentColdStorageIndex = n))
  /\ \A k \in 1..MaxRowid :
       []((Absorbed /\ Cardinality(store[P]) = k) => [](Cardinality(store[P]) >= k))

\* The case of C23: an alarm has fired on the read-only primary, which holds
\* documents and is configured for purging.
C23_Witness ==
  /\ Absorbed
  /\ config[P].purgeThresholdDocs > 0
  /\ Cardinality(store[P]) >= 2

\* C28 (under SpecIdType): while the shard's table holds a document, no
\* configure changes the idType the shard works with.
C28_IdTypeFixedWhileDataExists ==
  [][(ConfigureIdType /\ store[P] # {}) => IdTypeOf(config'[P]) = IdTypeOf(config[P])]_vars

\* The case of C28: the shard is configured for integer ids and holds a row
\* that was stored under a string id.
C28_Witness ==
  /\ ret.op = "configure"
  /\ config[P].idType = "integer"
  /\ \E r \in store[P] : r.id # Null

\* The number of rows a purge of count rows is to select: count minus the
\* target, or a fifth of count (rounded either way) when no target is set,
\* kept within 0..count.
PurgeNumbers(cfg, count) ==
  IF cfg.purgeTargetDocs # 0
    THEN {Max({0, count - cfg.purgeTargetDocs})}
    ELSE {n \in 0..count : 5 * n \in (count - 4)..(count + 4)}

\* C29 (under SpecTick): every purge that starts selects count - purgeTargetDocs
\* rows (a fifth of count when no target is configured), and a purge started
\* below purgeThresholdDocs, by the size condition, does not select every row
\* of the primary.
C29_PurgeSelectsCountMinusTarget ==
  [][(run.pc = "purge" /\ run'.pc = "p_stats") =>
       /\ Len(run'.docsToPurge) \in PurgeNumbers(config[P], Cardinality(store[P]))
       /\ (Cardinality(store[P]) < config[P].purgeThresholdDocs
             => Len(run'.docsToPurge) < Cardinality(store[P]))]_vars

\* The case of C29: a purge has started on a primary that holds fewer rows
\* than purgeThresholdDocs, so the size condition started it.
C29_Witness ==
  /\ run.pc = "p_stats"
  /\ run.remaining = run.docsToPurge
  /\ store[P] # {}
  /\ Cardinality(store[P]) < config[P].purgeThresholdDocs

\* C30 (under SpecRepl): at the lifecycle step of a tick, the purge is
\* triggered exactly when count >= purgeThresholdDocs or the database size
\* exceeds its threshold, also when no purgeThresholdDocs is configured.
C30_PurgeIffCountOrSize ==
  \A sizeReached \in BOOLEAN :
    (run.pc = "purge" /\ ~config[P].isReadOnly) =>
      (AlarmTriggersPurge(config[P], Cardinality(store[P]), sizeReached)
         <=> \/ (config[P].purgeThresholdDocs # 0
                   /\ Cardinality(store[P]) >= config[P].purgeThresholdDocs)
             \/ sizeReached)

\* The case of C30: a tick of a non-read-only primary that holds documents and
\* has no purgeThresholdDocs is at its lifecycle step.
C30_Witness ==
  /\ run.pc = "purge"
  /\ ~config[P].isReadOnly
  /\ config[P].purgeThresholdDocs = 0
  /\ store[P] # {}

\* The tokens of a query as the planner counts them: the words of the
\* processed query, in lower case.
PlanTokens(q) == SplitWords(toLowerCase(ProcessedQuery(q)), <<>>)

\* How many of a query's tokens are in the Stop or the Common set.
PlanCommon(q) ==
  Cardinality({i \in DOMAIN PlanTokens(q) :
                 PlanTokens(q)[i] \in STOP_WORDS \cup COMMON_TERMS})

\* The cost bucket of a ratio common / total.
PlanBucket(common, total) ==
  IF common = 0 THEN "low" ELSE IF 2 * common < total THEN "medium" ELSE "high"

\* The rows of the primary a query matches.
PlanHits(q) == {r \in store[P] : Matches(r, ProcessedQuery(q))}

\* C31 (under SpecPlan): for every query with at least one token and
\* r = common / total, the analysis rejects the query exactly when r > 0.8
\* and search then returns nothing; otherwise the cost is low when r = 0,
\* medium when 0 < r < 0.5 and high when r >= 0.5, and search returns the
\* matching rows up to the cap of that cost.
C31_RejectedAboveFourFifths ==
  \A q \in PlanQueryInputs : \A m \in MaxResultsInputs :
    LET total == Len(PlanTokens(q))
        common == PlanCommon(q)
        analysis == QueryAnalysis(ProcessedQuery(q))
    IN  total >= 1 =>
          /\ analysis.isTooCommon <=> (5 * common > 4 * total)
          /\ (5 * common > 4 * total) => search(store[P], q, m) = <<>>
          /\ ~(5 * common > 4 * total) =>
               /\ analysis.estimatedCost = PlanBucket(common, total)
               /\ Len(search(store[P], q, m)) =
                    Min2(Cardinality(PlanHits(q)),
                         EffectiveMaxResults(PlanBucket(common, total), m))

\* The case of C31: a search has answered with a hit while the primary holds
\* a row that the low-cost query "the; Rust" matches, next to queries of
\* medium cost, of high cost at ratios 1/2 and 4/5, and a rejected one.
C31_Witness ==
  /\ ret.op = "search"
  /\ ret.n > 0
  /\ PlanHits(<<"t","h","e",";"," ","R","u","s","t">>) # {}
  /\ {QueryAnalysis(ProcessedQuery(q)).estimatedCost : q \in PlanQueryInputs}
       = {"low", "medium", "high"}
  /\ \E q \in PlanQueryInputs :
       /\ 5 * PlanCommon(q) = 4 * Len(PlanTokens(q))
       /\ Len(PlanTokens(q)) >= 1
  /\ \E q \in PlanQueryInputs : QueryAnalysis(ProcessedQuery(q)).isTooCommon

\* C32 (under SpecReindex): a replica that is sent stored rows holds, for
\* each of them, a row of the same id with exactly the content the primary
\* stored: filtering and cutting a stored content again changes nothing.
C32_ReindexKeepsContent ==
  [][(run.pc = "sync_wait" /\ store'[RegionStub] # store[RegionStub]) =>
       \A i \in DOMAIN run.newDocs :
         \E r \in store'[RegionStub] :
           r.id = run.newDocs[i].id /\ r.content = run.newDocs[i].content]_vars

\* The case of C32: the replica has served a batch that carried a row whose
\* stored content is as long as the cut.
C32_Witness ==
  /\ run.pc = "sync_wait"
  /\ \E i \in DOMAIN run.newDocs : Len(run.newDocs[i].content) = MAX_CONTENT_LENGTH
  /\ \E k \in DOMAIN run.out : run.out[k].state = "ok"
  /\ store[RegionStub] # {}

\* C33 (under SpecConfigure): a configure call sets its own keys and keeps
\* every other key, in memory and in the persisted config; and a value that a
\* call persisted is still there after every later step, so that calls with
\* disjoint keys, in any order, leave all their values in the persisted config.
C33_ConfigureMerges ==
  [][\A c \in DisjointConfigInputs :
       /\ configure(P, c) =>
            /\ \A k \in DOMAIN config[P] \ DOMAIN c : config'[P][k] = config[P][k]
            /\ \A k \in DOMAIN c : config'[P][k] = c[k]
            /\ stored'[P].config = config'[P]
       /\ \A k \in DOMAIN c :
            stored[P].config[k] = c[k] => stored'[P].config[k] = c[k]]_vars

\* The case of C33: the three calls with disjoint keys were served, the last
\* of them while the alarm's purge was awaiting a cold shard, and the
\* persisted config holds the three values.
C33_Witness ==
  /\ ret.op = "configure"
  /\ run.pc \in {"p_stats", "p_index", "p_conf"}
  /\ \A c \in DisjointConfigInputs : \A k \in DOMAIN c : stored[P].config[k] = c[k]

\* C34 (under SpecOpen): a shard whose persisted db_version is higher than 1
\* serves no read and no write: no call is answered and no row changes.
C34_HigherVersionIsNotServed ==
  [][stored[P].db_version > DB_VERSION => (ret' = ret /\ store'[P] = store[P])]_vars

\* The case of C34: the shard was opened on a store of version 2 and has
\* since answered an Index call that wrote a row.
C34_Witness ==
  /\ stored[P].db_version > DB_VERSION
  /\ ret.op = "index"
  /\ ret.success
  /\ store[P] # {}

\* C35 (under SpecTick): on a primary with replicas configured, the rows a
\* purge deletes all have a rowid up to lastSyncRowId: they were sent to the
\* replicas before.
C35_PurgeDeletesOnlySyncedRows ==
  [][(/\ run.pc \in {"p_index", "p_conf"}
      /\ run'.pc = "rearm"
      /\ Len(config[P].replicas) > 0) =>
       \A r \in store[P] \ store'[P] : r.rowid <= stored[P].lastSyncRowId]_vars

\* The case of C35: a purge on a primary with a replica has deleted rows and
\* left a row that was indexed after the tick's replication step.
C35_Witness ==
  /\ run.pc = "rearm"
  /\ Len(config[P].replicas) > 0
  /\ stored[P].lastSyncRowId > 0
  /\ \E i \in 0..MaxColdIndex : store[Cold(i)] # {}
  /\ \E r \in store[P] : r.rowid > stored[P].lastSyncRowId

\* C36 (under SpecPurge): the cold-shard index the primary works with never
\* moves backwards, and whenever no alarm is running it is the value the last
\* purge persisted, also after a restart of the object.
C36_ColdIndexIsDurable ==
  [][/\ config'[P].currentColdStorageIndex >= config[P].currentColdStorageIndex
     /\ (run'.pc = "idle" =>
           config'[P].currentColdStorageIndex = stored'[P].currentColdStorageIndex)]_vars

\* The case of C36: a purge persisted an advanced index, and the object has
\* been constructed again since (its config is the persisted "config").
C36_Witness ==
  /\ stored[P].currentColdStorageIndex > 0
  /\ run.pc = "idle"
  /\ config[P] = stored[P].config
  /\ store[Cold(0)] # {}
  /\ config[P].currentColdStorageIndex # stored[P].currentColdStorageIndex

\* C37 (under SpecIdType): an Index call served with idType = integer stores
\* its document in the row whose rowid is the id, and that row, the search
\* hit for it and the document a replication or purge batch builds from it
\* carry the id under which the document was indexed.
C37_IntegerRowsCarryTheirId ==
  [][\A d \in TypedDocInputs :
       (/\ indexDocuments(P, <<d>>)
        /\ IdTypeOf(config[P]) = "integer"
        /\ ret'.success) =>
         /\ \E r \in store'[P] : r.rowid = d.id.num
         /\ \A r \in store'[P] : r.rowid = d.id.num => r.id = d.id
         /\ LET hits == search(store'[P], <<"R","u","s","t">>, DEFAULT_MAX_RESULTS)
                batch == ScanSince(store'[P], 0)
            IN  /\ \A i \in DOMAIN hits :
                     hits[i].rowid = d.id.num => hits[i].id = d.id
                /\ \A i \in DOMAIN batch :
                     batch[i].rowid = d.id.num => RowDocs(batch)[i].id = d.id]_vars

\* The case of C37: the shard, configured with idType = integer after its
\* creation, has served an Index call, and a search finds the row it wrote.
C37_Witness ==
  /\ config[P].idType = "integer"
  /\ ret.op = "index"
  /\ ret.success
  /\ \E i \in DOMAIN search(store[P], <<"R","u","s","t">>, DEFAULT_MAX_RESULTS) :
       search(store[P], <<"R","u","s","t">>, DEFAULT_MAX_RESULTS)[i].id \notin
         {Str(x) : x \in ValidIds}

\* C38 (under SpecQueue): the handler of a batch that carries documents
\* calls nothing while it awaits, and ends with exactly one of ackAll and
\* retryAll: ackAll exactly when indexDocuments returned success, after which
\* the primary held a row for every document of the batch.
C38_AckOnlyAfterCommit ==
  /\ consumer.pc \in {"rpc", "cache"} => (consumer.acked = 0 /\ consumer.retried = 0)
  /\ (consumer.pc = "done" /\ consumer.documents # <<>>) =>
       /\ consumer.acked + consumer.retried = 1
       /\ consumer.acked = 1 <=> consumer.result.success
       /\ consumer.acked = 1 => consumer.result.committed

\* The case of C38: a batch of two messages with three documents was indexed
\* and acknowledged.
C38_Witness ==
  /\ consumer.pc = "done"
  /\ Len(consumer.documents) = 3
  /\ consumer.acked = 1
  /\ consumer.result.indexed = 3

\* The list a searchDocuments on the regional replica returns when it
\* consults every cold shard below the primary's cold index.
WithFilledColdShards(st, cfgs, r) ==
  searchDocumentsResult(
    st, [cfgs[RegionStub] EXCEPT !.currentColdStorageIndex = cfgs[P].currentColdStorageIndex],
    RegionStub,
    [query |-> r.query, includeCold |-> r.includeCold, maxResults |-> r.maxResults],
    [local |-> "ok", cold |-> [i \in 0..MaxColdIndex |-> "ok"]])

\* C39 (under SpecWorkerCold): when performSearch serves a /search with
\* includeCold = true on the regional replica, the results are those of the
\* replica merged with the hits of every cold shard the primary's purges
\* have filled (the shards below the primary's cold index).
C39_ReplicaSearchConsultsColdShards ==
  [][(req.pc = "rpc" /\ req.includeCold /\ req'.pc # "rpc") =>
       LET expected == WithFilledColdShards(store, config, req)
       IN  IF Len(expected) > 0 THEN req'.pc = "fill" /\ req'.results = expected
           ELSE ret'.n = 0]_vars

\* The case of C39: the worker has answered an includeCold search from the
\* regional replica while a cold shard filled by the primary's purge holds a
\* document.
C39_Witness ==
  /\ ret.op = "fetch"
  /\ ret.shard = RegionStub
  /\ config[P].currentColdStorageIndex > 0
  /\ store[Cold(0)] # {}
  /\ cache[getCacheKey(<<"r","u","s","t">>, TRUE)].present

====
